---------------------------- MODULE Spec2Model ----------------------------
(***************************************************************************)
(* Model of the H.264 access-unit rewriter of ndi2srt (src/src/main.c):    *)
(* the pad probe h264_sei_inject_probe and prepend_h264_sei_timecode with  *)
(* the helpers it calls (start-code scanner, bit reader and writer,        *)
(* EBSP/RBSP codec, SPS/VUI parser, SPS patcher, Picture Timing SEI        *)
(* builder).                                                               *)
(*                                                                         *)
(* Conventions.  A byte buffer is a sequence of numbers 0..255; C offsets  *)
(* are 0-based, so data[i] of the source is At(data, i) here.  A NULL      *)
(* GByteArray* is the empty sequence (every array the code builds holds at *)
(* least a start code).  guint32 / guint64 quantities whose full width     *)
(* matters (framerate, PTS, VUI timing fields, frame index) are            *)
(* little-endian sequences of 15-bit limbs ("Big"), because the checker's  *)
(* integers are 32-bit signed; small quantities are plain numbers.         *)
(***************************************************************************)
EXTENDS Integers, Sequences, FiniteSets, TLC

VARIABLES
    pc,                  \* "idle" | "pushed" | "done": where the streaming thread is
    buf,                 \* the GstBuffer the encoder pushed on the probed pad (NULL when idle)
    newbuf,              \* the buffer h264_sei_inject_probe leaves in the probe info
    obs,                 \* locals of the last probe run: timecode, built SEI, stderr lines
    sei_cfg,             \* the SeiConfig handed to the probe (main.c 1373-1378)
    g_last_sps_info,     \* static SpsVuiInfo g_last_sps_info
    g_last_sps_valid,    \* static gboolean g_last_sps_valid
    g_patched_sps_ebsp,  \* static GByteArray *g_patched_sps_ebsp (<<>> = NULL)
    drop_frame_macro,    \* whether the build defines GST_VIDEO_TIME_CODE_FLAG_DROP_FRAME (#ifdef 423)
    arg,                 \* input of the function under test (unit specifications)
    res,                 \* its result
    main_pc,             \* where main is: "run" (g_main_loop_run, 1396) | "stop" (1398) |
                         \* "remove" (1401) | "free" (1412) | "exit" (1413)
    quit_by,             \* what quit the main loop: "none" | "error" | "eos" | "timeout"
    pipeline_state,      \* "PLAYING" | "NULL": the state main has set on the pipeline
    sei_probe_id,        \* gulong sei_probe_id (1381): 0 = no probe on the encoder's src pad
    sei_cfg_freed        \* whether g_free(sei_cfg) has run (1412)

vars == <<pc, buf, newbuf, obs, sei_cfg, g_last_sps_info, g_last_sps_valid,
          g_patched_sps_ebsp, drop_frame_macro, arg, res,
          main_pc, quit_by, pipeline_state, sei_probe_id, sei_cfg_freed>>

\* what main owns
main_vars == <<main_pc, quit_by, pipeline_state, sei_probe_id, sei_cfg_freed>>

NULL == <<>>

Min(S) == CHOOSE x \in S : \A y \in S : x <= y

Pow2(n) == 2 ^ n

\* data[i] with a 0-based C offset
At(data, i) == data[i + 1]

\* the bytes data[a] .. data[b-1]
Slice(data, a, b) == SubSeq(data, a + 1, b)

\* a function over 1..n as the sequence it is (its values computed once)
AsSeq(f) == SubSeq(f, 1, Len(f))

\* C's sequencing: x is computed, then y, and y is the value.  It keeps the
\* evaluation of y from nesting the whole chain of steps that leads to x.
Then(x, y) == IF x = x THEN y ELSE y

(***************************************************************************)
(* Wide unsigned integers: little-endian limbs of 15 bits, no leading zero *)
(* limb, so that equal numbers are equal sequences.                        *)
(***************************************************************************)
\* one bit short of half a 32-bit word, so that a product of two limbs plus a carry fits
LimbBits == 15

LimbBase == 2 ^ LimbBits

RECURSIVE BigNorm(_)
BigNorm(a) ==
    IF a = <<>> THEN <<>>
    ELSE IF a[Len(a)] = 0 THEN BigNorm(SubSeq(a, 1, Len(a) - 1))
    ELSE a

RECURSIVE BigOf(_)
BigOf(n) == IF n = 0 THEN <<>> ELSE <<n % LimbBase>> \o BigOf(n \div LimbBase)

BigLimb(a, i) == IF i <= Len(a) THEN a[i] ELSE 0

RECURSIVE BigToIntFrom(_, _)
BigToIntFrom(a, i) ==
    IF i > Len(a) THEN 0 ELSE a[i] + LimbBase * BigToIntFrom(a, i + 1)

\* only for values below 2^31
BigToInt(a) == BigToIntFrom(a, 1)

BigMax(x, y) == IF x >= y THEN x ELSE y

RECURSIVE BigAddFrom(_, _, _, _)
BigAddFrom(a, b, i, carry) ==
    IF i > BigMax(Len(a), Len(b))
    THEN (IF carry = 0 THEN <<>> ELSE <<carry>>)
    ELSE LET s == BigLimb(a, i) + BigLimb(b, i) + carry
         IN  <<s % LimbBase>> \o BigAddFrom(a, b, i + 1, s \div LimbBase)

BigAdd(a, b) == BigNorm(BigAddFrom(a, b, 1, 0))

\* -1, 0, 1 as a < b, a = b, a > b
RECURSIVE BigCmpFrom(_, _, _)
BigCmpFrom(a, b, i) ==
    IF i = 0 THEN 0
    ELSE IF BigLimb(a, i) < BigLimb(b, i) THEN -1
    ELSE IF BigLimb(a, i) > BigLimb(b, i) THEN 1
    ELSE BigCmpFrom(a, b, i - 1)

BigCmp(a, b) == BigCmpFrom(a, b, BigMax(Len(a), Len(b)))

BigLe(a, b) == BigCmp(a, b) <= 0

BigLt(a, b) == BigCmp(a, b) < 0

\* a - b for a >= b
RECURSIVE BigSubFrom(_, _, _, _)
BigSubFrom(a, b, i, borrow) ==
    IF i > Len(a) THEN <<>>
    ELSE LET d == BigLimb(a, i) - BigLimb(b, i) - borrow
         IN  IF d < 0
             THEN <<d + LimbBase>> \o BigSubFrom(a, b, i + 1, 1)
             ELSE <<d>> \o BigSubFrom(a, b, i + 1, 0)

BigSub(a, b) == BigNorm(BigSubFrom(a, b, 1, 0))

\* a * m for a limb-sized m
RECURSIVE BigMulLimbFrom(_, _, _, _)
BigMulLimbFrom(a, m, i, carry) ==
    IF i > Len(a)
    THEN (IF carry = 0 THEN <<>> ELSE <<carry>>)
    ELSE LET p == a[i] * m + carry
         IN  <<p % LimbBase>> \o BigMulLimbFrom(a, m, i + 1, p \div LimbBase)

RECURSIVE BigMulFrom(_, _, _)
BigMulFrom(a, b, i) ==
    IF i > Len(b) THEN <<>>
    ELSE BigAdd(BigMulLimbFrom(a, b[i], 1, 0),
                LET rest == BigMulFrom(a, b, i + 1)
                IN  IF rest = <<>> THEN <<>> ELSE <<0>> \o rest)

BigMul(a, b) == BigNorm(BigMulFrom(a, b, 1))

\* bit k (0 = least significant) of a
BigBit(a, k) == (BigLimb(a, (k \div LimbBits) + 1) \div Pow2(k % LimbBits)) % 2

\* the largest digit d in lo..hi with d*b <= r (lo*b <= r is given)
RECURSIVE BigQuotDigit(_, _, _, _)
BigQuotDigit(r, b, lo, hi) ==
    IF lo >= hi THEN lo
    ELSE LET mid == (lo + hi + 1) \div 2
         IN  IF BigLe(BigNorm(BigMulLimbFrom(b, mid, 1, 0)), r)
             THEN BigQuotDigit(r, b, mid, hi)
             ELSE BigQuotDigit(r, b, lo, mid - 1)

\* one digit of the quotient by a divisor of one limb: n is remainder*LimbBase + limb
BigDivShort(b, hi, n) ==
    [q |-> <<n \div b[1]>> \o hi.q, r |-> IF n % b[1] = 0 THEN <<>> ELSE <<n % b[1]>>]

\* one digit d of the quotient by a longer divisor, r1 being the running remainder
BigDivDigit(b, hi, r1, d) ==
    [q |-> <<d>> \o hi.q, r |-> BigSub(r1, BigNorm(BigMulLimbFrom(b, d, 1, 0)))]

\* a divisor b with top limb t and a remainder r1 with top part nt (the limbs of
\* the same and the next weight) have their quotient digit between
\* nt \div (t+1) and nt \div t
BigDivLong(b, hi, r1, t, nt) ==
    BigDivDigit(b, hi, r1,
                BigQuotDigit(r1, b, nt \div (t + 1),
                             IF nt \div t < LimbBase THEN nt \div t ELSE LimbBase - 1))

\* the limb x of the dividend brought down to the result hi for the limbs above it
BigDivStep(b, hi, x) ==
    IF Len(b) = 1 THEN BigDivShort(b, hi, BigLimb(hi.r, 1) * LimbBase + x)
    ELSE BigDivLong(b, hi, BigNorm(<<x>> \o hi.r), b[Len(b)],
                    BigLimb(BigNorm(<<x>> \o hi.r), Len(b) + 1) * LimbBase
                    + BigLimb(BigNorm(<<x>> \o hi.r), Len(b)))

\* schoolbook long division, one limb of a at a time from the top:
\* [q, r] with a = q*b + r, 0 <= r < b  (b > 0)
RECURSIVE BigDivModFrom(_, _, _)
BigDivModFrom(a, b, i) ==
    IF i > Len(a) THEN [q |-> <<>>, r |-> <<>>]
    ELSE BigDivStep(b, BigDivModFrom(a, b, i + 1), a[i])

BigDivMod(a, b) == [BigDivModFrom(a, b, 1) EXCEPT !.q = BigNorm(@)]

BigDiv(a, b) == BigDivMod(a, b).q

BigMod(a, b) == BigDivMod(a, b).r

\* a mod 2^w: the value a C unsigned type of w bits keeps
RECURSIVE BigLowBitsFrom(_, _, _)
BigLowBitsFrom(a, w, i) ==
    IF w <= 0 \/ i > Len(a) THEN <<>>
    ELSE IF w >= LimbBits THEN <<a[i]>> \o BigLowBitsFrom(a, w - LimbBits, i + 1)
    ELSE <<a[i] % Pow2(w)>>

BigLowBits(a, w) == BigNorm(BigLowBitsFrom(a, w, 1))

\* the number whose binary digits, most significant first, are bits
RECURSIVE BitsToInt(_, _, _)
BitsToInt(bits, i, acc) ==
    IF i > Len(bits) THEN acc ELSE BitsToInt(bits, i + 1, acc * 2 + bits[i])

\* the same for up to 64 digits, as Big: limb i holds digits 15(i-1) .. 15i-1 from the right
BigFromBits(bits) ==
    LET n == Len(bits)
    IN  BigNorm(AsSeq([i \in 1 .. ((n + LimbBits - 1) \div LimbBits) |->
                   BitsToInt(SubSeq(bits, BigMax(1, n - LimbBits * i + 1),
                                    n - LimbBits * (i - 1)), 1, 0)]))

\* 2^64 as Big
Big2To64 == <<0, 0, 0, 0, 16>>

\* (a - b) mod 2^64, the guint64 subtraction
BigSubWrap64(a, b) ==
    IF BigLe(b, a) THEN BigSub(a, b) ELSE BigSub(Big2To64, BigSub(b, a))

(***************************************************************************)
(* Emulation prevention and NAL assembly (main.c 362-384)                  *)
(***************************************************************************)
\* epb_safe_append without the emulation prevention byte
epb_safe_append_raw(arr, byte) == arr \o <<byte>>

\* epb_safe_append escaping 00, 01 and 02 after 00 00, but not 03
epb_safe_append_below_3(arr, byte) ==
    LET n == Len(arr)
    IN  IF n >= 2 /\ arr[n - 1] = 0 /\ arr[n] = 0 /\ byte <= 2
        THEN arr \o <<3, byte>>
        ELSE arr \o <<byte>>

epb_safe_append(arr, byte) ==
    LET n == Len(arr)
    IN  IF n >= 2 /\ arr[n - 1] = 0 /\ arr[n] = 0 /\ byte <= 3
        THEN arr \o <<3, byte>>
        ELSE arr \o <<byte>>

\* epb_safe_append of bytes[lo], ..., bytes[hi] in this order (the first half,
\* then the second half)
RECURSIVE epb_append_all(_, _, _, _)
epb_append_all(out, bytes, lo, hi) ==
    Then(out,
         IF lo > hi THEN out
         ELSE IF lo = hi THEN epb_safe_append(out, bytes[lo])
         ELSE epb_append_all(epb_append_all(out, bytes, lo, (lo + hi) \div 2),
                             bytes, ((lo + hi) \div 2) + 1, hi))

build_annexb_from_rbsp_and_header(rbsp, header_byte) ==
    epb_append_all(epb_safe_append(<<0, 0, 0, 1>>, header_byte), rbsp, 1, Len(rbsp))

(***************************************************************************)
(* Start-code scanner (main.c 388-404)                                     *)
(***************************************************************************)
\* the least element of S, or none when S is empty
MinOr(S, none) == IF S = {} THEN none ELSE Min(S)

find_startcode(data, size, from) ==
    MinOr({ i \in from .. (size - 4) :
              /\ At(data, i) = 0
              /\ At(data, i + 1) = 0
              /\ \/ At(data, i + 2) = 1
                 \/ (i + 4 < size /\ At(data, i + 2) = 0 /\ At(data, i + 3) = 1) },
          -1)

\* "(next < 0) ? size : next" for what find_startcode returned
end_or(next, size) == IF next < 0 THEN size ELSE next

\* startcode_len_at without its test for 00 00 00 01
startcode_len_at_three_only(data, size, pos) ==
    IF pos + 3 < size /\ At(data, pos) = 0 /\ At(data, pos + 1) = 0
    THEN IF At(data, pos + 2) = 1 THEN 3 ELSE 0
    ELSE 0

startcode_len_at(data, size, pos) ==
    IF pos + 3 < size /\ At(data, pos) = 0 /\ At(data, pos + 1) = 0
    THEN IF At(data, pos + 2) = 1 THEN 3
         ELSE IF pos + 4 < size /\ At(data, pos + 2) = 0 /\ At(data, pos + 3) = 1 THEN 4
         ELSE 0
    ELSE 0

(***************************************************************************)
(* Bit writer (main.c 727-778).  The writer is held as the sequence of the *)
(* bits put so far; the fields of the C struct are functions of it:        *)
(* bits_filled = Len mod 8, bytes = the complete groups of 8 bits, current *)
(* = the bits of the incomplete group.                                     *)
(***************************************************************************)
bw_init == <<>>

bw_bits_filled(bw) == Len(bw) % 8

bw_bytes(bw) ==
    AsSeq([j \in 1 .. (Len(bw) \div 8) |->
        128 * bw[8*j - 7] + 64 * bw[8*j - 6] + 32 * bw[8*j - 5] + 16 * bw[8*j - 4]
        + 8 * bw[8*j - 3] + 4 * bw[8*j - 2] + 2 * bw[8*j - 1] + bw[8*j]])

bw_put_bit(bw, bit) == Append(bw, bit % 2)

\* value below 2^31: the bits (value >> i) & 1 for i = num_bits-1 .. 0
bw_put_bits(bw, value, num_bits) ==
    bw \o [k \in 1 .. num_bits |-> (value \div Pow2(num_bits - k)) % 2]

\* bw_put_bits for a guint32 value held as Big
bw_put_bits_wide(bw, value, num_bits) ==
    bw \o [k \in 1 .. num_bits |-> BigBit(value, num_bits - k)]

\* bw_put_bits of the fields <<value, num_bits>>, in order
RECURSIVE bw_put_fields(_, _)
bw_put_fields(bw, fields) ==
    Then(bw,
         IF fields = <<>> THEN bw
         ELSE bw_put_fields(bw_put_bits(bw, Head(fields)[1], Head(fields)[2]),
                            Tail(fields)))

\* zero bits until bits_filled is 0 again
bw_pad_zero(bw) == bw \o [k \in 1 .. ((8 - bw_bits_filled(bw)) % 8) |-> 0]

bw_put_rbsp_trailing_bits(bw) == bw_pad_zero(bw_put_bit(bw, 1))

bw_flush_zero_align(bw) == IF bw_bits_filled(bw) > 0 THEN bw_pad_zero(bw) ELSE bw

(***************************************************************************)
(* Picture Timing SEI builder (main.c 838-885).  frame is a Big (guint),   *)
(* the other fields are numbers.                                           *)
(***************************************************************************)
RECURSIVE sei_payload_size(_, _)
sei_payload_size(sei, total) ==
    IF total >= 255 THEN sei_payload_size(epb_safe_append(sei, 255), total - 255)
    ELSE epb_safe_append(sei, total)

\* the payload bytes, byte-aligned with zero bits (839-861)
pic_timing_payload(drop_frame, frame, seconds, minutes, hours, include_time_offset) ==
    bw_bytes(bw_flush_zero_align(
        bw_put_fields(bw_init,
            <<<<0, 4>>,                               \* pic_struct
              <<1, 1>>,                               \* clock_timestamp_flag[0]
              <<0, 2>>,                               \* ct_type
              <<0, 1>>,                               \* nuit_field_based_flag
              <<0, 5>>,                               \* counting_type
              <<1, 1>>,                               \* full_timestamp_flag
              <<0, 1>>,                               \* discontinuity_flag
              <<IF drop_frame THEN 1 ELSE 0, 1>>,     \* cnt_dropped_flag
              <<BigLimb(frame, 1) % 256, 8>>,         \* n_frames = frame & 0xFF
              <<seconds % 64, 6>>,
              <<minutes % 64, 6>>,
              <<hours % 32, 5>>>>
            \o (IF include_time_offset THEN <<<<0, 24>>>> ELSE <<>>))))

\* the SEI NAL around a payload (863-884): payloadType 1, the size, the payload,
\* rbsp_trailing_bits
sei_nal_of_payload(payload) ==
    epb_safe_append(
        epb_append_all(sei_payload_size(epb_safe_append(<<0, 0, 0, 1, 6>>, 1), Len(payload)),
                       payload, 1, Len(payload)),
        128)

\* the builder with the seconds and the minutes written in each other's place
build_pic_timing_sei_nal_swapped(drop_frame, frame, seconds, minutes, hours, include_time_offset) ==
    sei_nal_of_payload(pic_timing_payload(drop_frame, frame, minutes, seconds, hours,
                                          include_time_offset))

build_pic_timing_sei_nal(drop_frame, frame, seconds, minutes, hours, include_time_offset) ==
    sei_nal_of_payload(pic_timing_payload(drop_frame, frame, seconds, minutes, hours,
                                          include_time_offset))

(***************************************************************************)
(* Bit reader (main.c 888-926).  A reader is [pos, ok] over a byte buffer; *)
(* each read returns the value and the reader after it.  The loops of      *)
(* br_read_bits and br_read_ue are given by what they compute, case by     *)
(* case, because TLC's stack does not hold a recursion per bit.           *)
(***************************************************************************)
br_init == [pos |-> 0, ok |-> TRUE]

BitAt(data, p) == (At(data, p \div 8) \div Pow2(7 - (p % 8))) % 2

ByteOrZero(data, i) == IF i < Len(data) THEN At(data, i) ELSE 0

\* the number written by the n <= 16 bits of data from bit position p on
BitWindow(data, p, n) ==
    LET i == p \div 8
        w == ByteOrZero(data, i) * 65536 + ByteOrZero(data, i + 1) * 256
             + ByteOrZero(data, i + 2)
    IN  (w \div Pow2(24 - (p % 8) - n)) % Pow2(n)

br_read_bit(data, br) ==
    IF br.pos >= Len(data) * 8
    THEN [v |-> 0, br |-> [pos |-> br.pos, ok |-> FALSE]]
    ELSE [v |-> BitAt(data, br.pos), br |-> [pos |-> br.pos + 1, ok |-> br.ok]]

\* Where the loop of br_read_bits leaves the reader, and whether it returned 0 early:
\*  - nbits = 0: nothing is read;
\*  - ok already FALSE: one br_read_bit, then "if (ok && !*ok) return 0";
\*  - fewer than nbits bits left: the bits left are read, the next read clears ok;
\*  - otherwise nbits bits are read.
br_bits_end(data, br, nbits) ==
    LET avail == Len(data) * 8 - br.pos
    IN  IF nbits = 0 THEN [failed |-> FALSE, br |-> br]
        ELSE IF ~br.ok
             THEN [failed |-> TRUE, br |-> br_read_bit(data, br).br]
        ELSE IF nbits > avail
             THEN [failed |-> TRUE, br |-> [pos |-> br.pos + avail, ok |-> FALSE]]
        ELSE [failed |-> FALSE, br |-> [pos |-> br.pos + nbits, ok |-> TRUE]]

\* nbits <= 31
br_read_bits(data, br, nbits) ==
    [v |-> IF br_bits_end(data, br, nbits).failed \/ nbits = 0 THEN 0
           ELSE IF nbits <= 16 THEN BitWindow(data, br.pos, nbits)
           ELSE BitWindow(data, br.pos, nbits - 16) * 65536
                + BitWindow(data, br.pos + nbits - 16, 16),
     br |-> br_bits_end(data, br, nbits).br]

\* br_read_bits for a guint32 result (nbits <= 45), as Big: limb i holds the
\* bits 15(i-1) .. 15i-1 counted from the last bit read
br_read_bits_wide(data, br, nbits) ==
    [v |-> IF br_bits_end(data, br, nbits).failed \/ nbits = 0 THEN <<>>
           ELSE BigNorm(AsSeq([i \in 1 .. ((nbits + LimbBits - 1) \div LimbBits) |->
                    BitWindow(data, br.pos + BigMax(0, nbits - LimbBits * i),
                              nbits - LimbBits * (i - 1)
                              - BigMax(0, nbits - LimbBits * i))])),
     br |-> br_bits_end(data, br, nbits).br]

\* (1u << zeros) - 1 + suffix reaches 2^32 - 2; a value above 2^31 - 1 is reported
\* as 2^31 - 1 in v, and exactly by zeros and suffix (value = 2^zeros - 1 + suffix)
UeCap == 2147483647

\* the code with z > 0 leading zeros whose suffix of z bits br_read_bits returned as s
ue_code(z, s) ==
    [v |-> IF z <= 30 THEN Pow2(z) - 1 + s.v ELSE UeCap,
     zeros |-> z, suffix |-> s.v, br |-> s.br]

\* the while loop of br_read_ue has stopped at bit position stop: on the first 1
\* among the bits br.pos .. last, or at last + 1 when they are all 0
ue_stopped(data, br, last, stop) ==
    IF stop > last
    THEN [v |-> 0, zeros |-> 0, suffix |-> 0, br |-> [pos |-> last + 1, ok |-> FALSE]]
    ELSE IF stop = br.pos
    THEN [v |-> 0, zeros |-> 0, suffix |-> 0, br |-> [pos |-> stop + 1, ok |-> TRUE]]
    ELSE ue_code(stop - br.pos,
                 br_read_bits(data, [pos |-> stop + 1, ok |-> TRUE], stop - br.pos))

\* the last bit the while loop may read: the 32nd from br.pos, or the last of the data
ue_last(data, br) ==
    (IF Len(data) * 8 - br.pos >= 32 THEN br.pos + 32 ELSE Len(data) * 8) - 1

\* br_read_ue.  Its while loop reads bits until a 1:
\*  - ok already FALSE: one bit is read (if any is left) and 0 is returned, whether
\*    the bit is 0 ("if (!*ok) return 0") or 1 (zeros = 0);
\*  - a 1 among the next 32 bits, after z <= 31 zeros: z = 0 returns 0, else the
\*    suffix of z bits is read with br_read_bits;
\*  - 32 zeros: zeros > 31 clears ok after the 32nd bit;
\*  - the data ends first: the read past the end clears ok.
br_read_ue(data, br) ==
    IF ~br.ok
    THEN [v |-> 0, zeros |-> 0, suffix |-> 0, br |-> br_read_bit(data, br).br]
    ELSE ue_stopped(data, br, ue_last(data, br),
                    Min({ p \in br.pos .. ue_last(data, br) : BitAt(data, p) = 1 }
                        \cup {ue_last(data, br) + 1}))

\* field widths for br_skip: UE stands for an exp-Golomb code
UE == 0

\* the reader after the reads of the fields, their values discarded: br_read_bits
\* of the width, or br_read_ue
RECURSIVE br_skip(_, _, _)
br_skip(data, br, fields) ==
    Then(br,
         IF fields = <<>> THEN br
         ELSE br_skip(data,
                      IF Head(fields) = UE THEN br_read_ue(data, br).br
                      ELSE br_bits_end(data, br, Head(fields)).br,
                      Tail(fields)))

\* "if (flag) { reads }", f being what the read of the flag returned
br_skip_if(data, f, fields) == IF f.v # 0 THEN br_skip(data, f.br, fields) ELSE f.br

\* "if (!flag) { reads }"
br_skip_unless(data, f, fields) == IF f.v = 0 THEN br_skip(data, f.br, fields) ELSE f.br

(***************************************************************************)
(* EBSP -> RBSP (main.c 928-942).  zeros counts the 00 bytes straight      *)
(* before the current byte (a skipped 03 resets it, and is itself not 00), *)
(* so byte i is skipped exactly when it is 03 and bytes i-1, i-2 are 00.   *)
(***************************************************************************)
\* the bytes from index from on, without the bytes at the indices in dropped
RECURSIVE ebsp_segments(_, _, _)
ebsp_segments(ebsp, dropped, from) ==
    IF { i \in dropped : i >= from } = {} THEN SubSeq(ebsp, from, Len(ebsp))
    ELSE SubSeq(ebsp, from, Min({ i \in dropped : i >= from }) - 1)
         \o ebsp_segments(ebsp, dropped, Min({ i \in dropped : i >= from }) + 1)

ebsp_to_rbsp(ebsp) ==
    ebsp_segments(ebsp, { i \in 3 .. Len(ebsp) :
                            ebsp[i] = 3 /\ ebsp[i - 1] = 0 /\ ebsp[i - 2] = 0 }, 1)

(***************************************************************************)
(* SPS walk up to vui_parameters_present_flag.  The same statements appear *)
(* three times in the source: in parse_sps_vui_info_from_rbsp (1096-1148), *)
(* in patch_sps_pic_struct_and_timing (1014-1039) and in                   *)
(* patch_sps_pic_struct_flag_to_one (951-976).  They differ only in how a  *)
(* present scaling list is skipped: the parser runs the delta loop         *)
(* (std_scaling = TRUE), the two patchers read sizeOfScalingList ue codes. *)
(***************************************************************************)
IsHighProfile(profile_idc) ==
    profile_idc \in {100, 110, 122, 244, 44, 83, 86, 118, 128, 138, 139, 134, 135}

br_exhausted(data, br) == br.pos >= Len(data) * 8

\* n times br_read_ue, results discarded (the first n \div 2 reads, then the
\* others).  Once the reader is at the end every further read only clears ok.
RECURSIVE skip_ue(_, _, _)
skip_ue(data, br, n) ==
    Then(br,
         IF n = 0 THEN br
         ELSE IF br_exhausted(data, br) THEN [pos |-> br.pos, ok |-> FALSE]
         ELSE IF n = 1 THEN br_read_ue(data, br).br
         ELSE skip_ue(data, skip_ue(data, br, n \div 2), n - (n \div 2)))

\* C's % on gint: the remainder has the sign of the dividend
CRem(a, m) == IF a >= 0 THEN a % m ELSE -((-a) % m)

\* se = (ue & 1) ? (gint)((ue + 1) / 2) : -(gint)(ue / 2), from the exact ue
se_of_ue(u) ==
    IF u.zeros <= 30
    THEN (IF u.v % 2 = 1 THEN (u.v + 1) \div 2 ELSE -(u.v \div 2))
    ELSE (IF u.suffix % 2 = 0 THEN Pow2(30) + (u.suffix \div 2)
                              ELSE -(Pow2(30) + ((u.suffix - 1) \div 2)))

\* one iteration of the parser's delta loop (1116-1123) that has read the code u;
\* st is [br, lastScale, nextScale]
scaling_list_read(st, u) ==
    [br |-> u.br,
     lastScale |-> IF CRem(st.lastScale + se_of_ue(u) + 256, 256) = 0 THEN st.lastScale
                   ELSE CRem(st.lastScale + se_of_ue(u) + 256, 256),
     nextScale |-> CRem(st.lastScale + se_of_ue(u) + 256, 256)]

scaling_list_step(data, st) ==
    IF st.nextScale = 0 THEN st ELSE scaling_list_read(st, br_read_ue(data, st.br))

\* the iterations j .. k-1 of the delta loop (1115-1124): the first half, then
\* the second; with nextScale = 0 an iteration changes nothing
RECURSIVE scaling_list_delta(_, _, _, _)
scaling_list_delta(data, st, j, k) ==
    Then(st,
         IF j >= k \/ st.nextScale = 0 THEN st
         ELSE IF k = j + 1 THEN scaling_list_step(data, st)
         ELSE scaling_list_delta(data, scaling_list_delta(data, st, j, (j + k) \div 2),
                                 (j + k) \div 2, k))

\* one scaling list of the given size, f being what the read of its present flag
\* returned: the parser runs the delta loop, the patchers read size ue codes
scaling_list(data, f, size, std_scaling) ==
    IF f.v = 0 THEN f.br
    ELSE IF std_scaling
    THEN scaling_list_delta(data, [br |-> f.br, lastScale |-> 8, nextScale |-> 8], 0, size).br
    ELSE skip_ue(data, f.br, size)

\* the lists i .. count-1
RECURSIVE scaling_lists(_, _, _, _, _)
scaling_lists(data, br, i, count, std_scaling) ==
    Then(br,
         IF i >= count THEN br
         ELSE scaling_lists(data,
                            scaling_list(data, br_read_bits(data, br, 1),
                                         IF i < 6 THEN 16 ELSE 64, std_scaling),
                            i + 1, count, std_scaling))

\* seq_scaling_matrix_present_flag, read as smp, and the lists
sps_scaling_matrix(data, chroma, smp, std_scaling) ==
    IF smp.v # 0
    THEN scaling_lists(data, smp.br, 0, IF chroma.v # 3 THEN 8 ELSE 12, std_scaling)
    ELSE smp.br

\* from chroma_format_idc, read as chroma, on: separate_colour_plane_flag,
\* bit_depth_luma_minus8, bit_depth_chroma_minus8,
\* qpprime_y_zero_transform_bypass_flag, the scaling matrix
sps_chroma_format(data, chroma, std_scaling) ==
    sps_scaling_matrix(data, chroma,
        br_read_bits(data,
            br_skip(data, IF chroma.v = 3 THEN br_skip(data, chroma.br, <<1>>)
                          ELSE chroma.br,
                    <<UE, UE, 1>>),
            1),
        std_scaling)

sps_high_part(data, br, profile_idc, std_scaling) ==
    IF IsHighProfile(profile_idc) THEN sps_chroma_format(data, br_read_ue(data, br), std_scaling)
    ELSE br

\* num_ref_frames_in_pic_order_cnt_cycle, read as num_ref, and the offsets
sps_poc_cycle(data, num_ref) == skip_ue(data, num_ref.br, num_ref.v)

\* from pic_order_cnt_type, read as poc, on
sps_poc_type(data, poc) ==
    IF poc.v = 0 THEN br_skip(data, poc.br, <<UE>>)
    ELSE IF poc.v = 1
    THEN sps_poc_cycle(data, br_read_ue(data, br_skip(data, poc.br, <<1, UE, UE>>)))
    ELSE poc.br

\* log2_max_frame_num_minus4, pic_order_cnt_type and what follows from it
sps_poc_part(data, br) == sps_poc_type(data, br_read_ue(data, br_skip(data, br, <<UE>>)))

\* max_num_ref_frames, gaps_in_frame_num_value_allowed_flag,
\* pic_width_in_mbs_minus1, pic_height_in_map_units_minus1, frame_mbs_only_flag
\* (without it mb_adaptive_frame_field_flag), direct_8x8_inference_flag,
\* frame_cropping_flag (with it the four offsets)
sps_frame_part(data, br) ==
    br_skip_if(data,
        br_read_bits(data,
            br_skip(data,
                br_skip_unless(data,
                    br_read_bits(data, br_skip(data, br, <<UE, 1, UE, UE>>), 1),
                    <<1>>),
                <<1>>),
            1),
        <<UE, UE, UE, UE>>)

\* the reader standing at vui_parameters_present_flag: profile_idc, the
\* constraint flags, level_idc, seq_parameter_set_id, then the three parts
sps_walk_to_vui_flag(rbsp, std_scaling) ==
    sps_frame_part(rbsp,
        sps_poc_part(rbsp,
            sps_high_part(rbsp, br_skip(rbsp, br_init, <<8, 8, 8, UE>>),
                          br_read_bits(rbsp, br_init, 8).v, std_scaling)))

(***************************************************************************)
(* The VUI walk, from after vui_parameters_present_flag to just before     *)
(* pic_struct_present_flag: parse_sps_vui_info_from_rbsp 1165-1216, and    *)
(* the same statements without the recorded fields in                      *)
(* patch_sps_pic_struct_flag_to_one 980-991.                               *)
(***************************************************************************)
\* the iterations i .. cpb_cnt_minus1 of the loop 1196-1198 (the lower half,
\* then the upper half)
RECURSIVE hrd_cpb_loop(_, _, _, _)
hrd_cpb_loop(data, br, i, cpb_cnt_minus1) ==
    Then(br,
         IF i > cpb_cnt_minus1 THEN br
         ELSE IF br_exhausted(data, br) THEN [pos |-> br.pos, ok |-> FALSE]
         ELSE IF i = cpb_cnt_minus1 THEN br_skip(data, br, <<UE, UE, 1>>)
         ELSE hrd_cpb_loop(data,
                           hrd_cpb_loop(data, br, i, i + ((cpb_cnt_minus1 - i) \div 2)),
                           i + ((cpb_cnt_minus1 - i) \div 2) + 1, cpb_cnt_minus1))

\* the three lengths read from br on, 5 bits each
hrd_lengths(data, br) ==
    [br |-> br_skip(data, br, <<5, 5, 5>>), hrd |-> TRUE,
     cpb_removal_delay_length_minus1 |-> br_read_bits(data, br, 5).v,
     dpb_output_delay_length_minus1 |-> br_read_bits(data, br_skip(data, br, <<5>>), 5).v,
     time_offset_length |-> br_read_bits(data, br_skip(data, br, <<5, 5>>), 5).v]

\* from cpb_cnt_minus1, read as cnt, on: bit_rate_scale, cpb_size_scale, the
\* loop, initial_cpb_removal_delay_length_minus1, the three lengths
hrd_after_cnt(data, cnt) ==
    hrd_lengths(data,
        br_skip(data, hrd_cpb_loop(data, br_skip(data, cnt.br, <<4, 4>>), 0, cnt.v), <<5>>))

\* the body of "if (nal_hrd_parameters_present_flag)" and of
\* "if (vcl_hrd_parameters_present_flag)"
hrd_parameters(data, br) == hrd_after_cnt(data, br_read_ue(data, br))

\* aspect_ratio_info_present_flag, read as ar, aspect_ratio_idc, sar_width and sar_height
vui_aspect_ratio(data, ar) ==
    IF ar.v = 0 THEN ar.br
    ELSE IF br_read_bits(data, ar.br, 8).v = 255 THEN br_skip(data, ar.br, <<8, 16, 16>>)
    ELSE br_skip(data, ar.br, <<8>>)

\* video_signal_type_present_flag, read as vs, video_format and
\* video_full_range_flag, colour_description_present_flag and the description
vui_video_signal(data, vs) ==
    IF vs.v = 0 THEN vs.br
    ELSE br_skip_if(data, br_read_bits(data, br_skip(data, vs.br, <<3>>), 1), <<8, 8, 8>>)

\* from aspect_ratio_info_present_flag to chroma_loc_info_present_flag and the
\* two locations
vui_head(data, br) ==
    br_skip_if(data,
        br_read_bits(data,
            vui_video_signal(data,
                br_read_bits(data,
                    br_skip_if(data,                  \* overscan_info_present_flag
                        br_read_bits(data, vui_aspect_ratio(data, br_read_bits(data, br, 1)), 1),
                        <<1>>),
                    1)),
            1),
        <<UE, UE>>)

\* timing_info_present_flag, read as ti, and with it num_units_in_tick,
\* time_scale, fixed_frame_rate_flag
vui_timing(data, ti) ==
    IF ti.v # 0
    THEN [br |-> br_skip(data, ti.br, <<32, 32, 1>>), timing |-> TRUE,
          num_units_in_tick |-> br_read_bits_wide(data, ti.br, 32).v,
          time_scale |-> br_read_bits_wide(data, br_skip(data, ti.br, <<32>>), 32).v,
          fixed_frame_rate_flag |->
              br_read_bits(data, br_skip(data, ti.br, <<32, 32>>), 1).v # 0]
    ELSE [br |-> ti.br, timing |-> FALSE, num_units_in_tick |-> <<>>, time_scale |-> <<>>,
          fixed_frame_rate_flag |-> FALSE]

\* nal_hrd_parameters_present_flag, read as nal, and the lengths: the defaults
\* of line 1190 or those of the HRD parameters
vui_nal_hrd(data, nal) ==
    IF nal.v # 0 THEN hrd_parameters(data, nal.br)
    ELSE [br |-> nal.br, hrd |-> FALSE, cpb_removal_delay_length_minus1 |-> 23,
          dpb_output_delay_length_minus1 |-> 23, time_offset_length |-> 24]

\* vcl_hrd_parameters_present_flag, read from where nh ends: its HRD parameters
\* replace the lengths of nh
vui_vcl_hrd(data, nh) ==
    IF br_read_bits(data, nh.br, 1).v # 0
    THEN hrd_parameters(data, br_skip(data, nh.br, <<1>>))
    ELSE [nh EXCEPT !.br = br_skip(data, @, <<1>>)]

\* low_delay_hrd_flag, read when either HRD is present
vui_low_delay(data, vh) ==
    [vh EXCEPT !.br = IF vh.hrd THEN br_skip(data, @, <<1>>) ELSE @]

\* the HRD part read from where the timing part t ends: [t, h]
vui_timing_and_hrd(data, t) ==
    [t |-> t,
     h |-> vui_low_delay(data, vui_vcl_hrd(data, vui_nal_hrd(data, br_read_bits(data, t.br, 1))))]

\* [t, h]: t is the timing information, h the HRD lengths and, as h.br, the
\* reader standing at pic_struct_present_flag
vui_walk(data, br) ==
    vui_timing_and_hrd(data, vui_timing(data, br_read_bits(data, vui_head(data, br), 1)))

(***************************************************************************)
(* SPS/VUI parser (main.c 1092-1224): [ret, info]                          *)
(***************************************************************************)
SpsVuiInfoZero ==
    [vui_present |-> FALSE, pic_struct_present_flag |-> FALSE,
     cpb_dpb_delays_present_flag |-> FALSE, cpb_removal_delay_length |-> 0,
     dpb_output_delay_length |-> 0, time_offset_length |-> 0,
     timing_info_present_flag |-> FALSE, num_units_in_tick |-> <<>>,
     time_scale |-> <<>>, fixed_frame_rate_flag |-> FALSE]

\* 1215-1223: pic_struct_present_flag and the fields of out, w being the VUI walk
sps_vui_info(rbsp, w) ==
    [ret |-> br_read_bits(rbsp, w.h.br, 1).br.ok,
     info |-> [vui_present |-> TRUE,
               pic_struct_present_flag |-> (br_read_bits(rbsp, w.h.br, 1).v # 0),
               cpb_dpb_delays_present_flag |-> w.h.hrd,
               cpb_removal_delay_length |-> w.h.cpb_removal_delay_length_minus1 + 1,
               dpb_output_delay_length |-> w.h.dpb_output_delay_length_minus1 + 1,
               time_offset_length |-> IF w.h.hrd THEN w.h.time_offset_length ELSE 0,
               timing_info_present_flag |-> w.t.timing,
               num_units_in_tick |-> w.t.num_units_in_tick,
               time_scale |-> w.t.time_scale,
               fixed_frame_rate_flag |-> w.t.fixed_frame_rate_flag]]

\* 1149-1163 and on: vui_parameters_present_flag, read as flag
sps_vui_from_flag(rbsp, flag) ==
    IF flag.v = 0 \/ ~flag.br.ok
    THEN [ret |-> TRUE,
          info |-> [SpsVuiInfoZero EXCEPT !.vui_present = (flag.v # 0),
                                          !.pic_struct_present_flag = TRUE]]
    ELSE sps_vui_info(rbsp, vui_walk(rbsp, flag.br))

parse_sps_vui_info_from_rbsp(rbsp) ==
    sps_vui_from_flag(rbsp, br_read_bits(rbsp, sps_walk_to_vui_flag(rbsp, TRUE), 1))

(***************************************************************************)
(* SPS patchers (main.c 945-1088).  A result is the Annex B NAL, or NULL.  *)
(***************************************************************************)
\* the byte sequence with bit number bitpos (from the start, MSB first) set to 1
SetBit(data, bitpos) ==
    AsSeq([k \in 1 .. Len(data) |->
        IF k - 1 = bitpos \div 8 /\ BitAt(data, bitpos) = 0
        THEN data[k] + Pow2(7 - (bitpos % 8))
        ELSE data[k]])

\* 993-1003: br is the reader at pic_struct_present_flag.  When the walk ends
\* exactly at the end of the RBSP with ok still set, line 999 writes one byte
\* past the array: oob names the outcome, "slack" (the byte lands in spare
\* capacity and the NAL is built from the unchanged bytes) or "crash".
patch_flag_at(rbsp, header_byte, oob, br) ==
    IF ~br.ok THEN NULL
    ELSE IF br.pos >= Len(rbsp) * 8
         THEN (IF oob = "slack" THEN build_annexb_from_rbsp_and_header(rbsp, header_byte)
               ELSE <<"crash">>)
    ELSE build_annexb_from_rbsp_and_header(SetBit(rbsp, br.pos), header_byte)

\* 977-992: vui_parameters_present_flag, read as flag, and the VUI walk
patch_flag_from_vui_flag(rbsp, header_byte, oob, flag) ==
    IF ~flag.br.ok \/ flag.v = 0 THEN NULL
    ELSE patch_flag_at(rbsp, header_byte, oob, vui_walk(rbsp, flag.br).h.br)

\* 951-1003 on the RBSP
patch_flag_in_rbsp(rbsp, header_byte, oob) ==
    patch_flag_from_vui_flag(rbsp, header_byte, oob,
                             br_read_bits(rbsp, sps_walk_to_vui_flag(rbsp, FALSE), 1))

\* patch_sps_pic_struct_flag_to_one (945-1004)
patch_sps_pic_struct_flag_to_one(ebsp, header_byte, oob) ==
    patch_flag_in_rbsp(ebsp_to_rbsp(ebsp), header_byte, oob)

\* 1053-1080: the new VUI after the copied bits, and the trailing bits
patch_timing_vui(copied, num_units_in_tick, time_scale) ==
    bw_bytes(bw_put_rbsp_trailing_bits(
        bw_put_fields(
            bw_put_bits_wide(
                bw_put_bits_wide(
                    bw_put_fields(bw_put_bit(copied, 1),  \* vui_parameters_present_flag
                        <<<<0, 1>>,                       \* aspect_ratio_info_present_flag
                          <<0, 1>>,                       \* overscan_info_present_flag
                          <<0, 1>>,                       \* video_signal_type_present_flag
                          <<0, 1>>,                       \* chroma_loc_info_present_flag
                          <<1, 1>>>>),                    \* timing_info_present_flag
                    num_units_in_tick, 32),
                time_scale, 32),
            <<<<1, 1>>,                                   \* fixed_frame_rate_flag
              <<0, 1>>,                                   \* nal_hrd_parameters_present_flag
              <<0, 1>>,                                   \* vcl_hrd_parameters_present_flag
              <<1, 1>>,                                   \* pic_struct_present_flag
              <<0, 1>>>>)))                               \* bitstream_restriction_flag

\* 1040-1087: br2 is the reader at vui_parameters_present_flag.  The copy loop
\* 1047-1051 reads below vui_flag_bitpos, so none of its reads fails.
patch_timing_at(rbsp, header_byte, fps_n, fps_d, br2) ==
    IF ~br_read_bits(rbsp, br2, 1).br.ok THEN NULL
    ELSE build_annexb_from_rbsp_and_header(
             patch_timing_vui(AsSeq([k \in 1 .. br2.pos |-> BitAt(rbsp, k - 1)]),
                              fps_d, BigLowBits(BigMul(fps_n, BigOf(2)), 32)),
             header_byte)

\* 1014-1087 on the RBSP
patch_timing_in_rbsp(rbsp, header_byte, fps_n, fps_d) ==
    patch_timing_at(rbsp, header_byte, fps_n, fps_d, sps_walk_to_vui_flag(rbsp, FALSE))

\* patch_sps_pic_struct_and_timing (1007-1088); fps_n, fps_d are guint (Big)
patch_sps_pic_struct_and_timing(ebsp, header_byte, fps_n, fps_d, oob) ==
    IF fps_n = <<>> \/ fps_d = <<>>
    THEN patch_sps_pic_struct_flag_to_one(ebsp, header_byte, oob)
    ELSE patch_timing_in_rbsp(ebsp_to_rbsp(ebsp), header_byte, fps_n, fps_d)

(***************************************************************************)
(* extract_sps_vui_from_au (1226-1248): [ret, info] of the first SPS NAL   *)
(***************************************************************************)
\* 1235-1246: the NAL data[nal_start .. nal_end) of the loop
RECURSIVE extract_sps_loop(_, _, _)
extract_sps_nal(annexb, size, nal_start, nal_end) ==
    IF At(annexb, nal_start) % 32 = 7
    THEN parse_sps_vui_info_from_rbsp(ebsp_to_rbsp(Slice(annexb, nal_start + 1, nal_end)))
    ELSE extract_sps_loop(annexb, size, nal_end)

\* 1230-1234: sc is what find_startcode returned
extract_sps_from(annexb, size, sc) ==
    IF sc < 0 \/ sc + startcode_len_at(annexb, size, sc) >= size
    THEN [ret |-> FALSE, info |-> SpsVuiInfoZero]
    ELSE extract_sps_nal(annexb, size, sc + startcode_len_at(annexb, size, sc),
             end_or(find_startcode(annexb, size, sc + startcode_len_at(annexb, size, sc)),
                    size))

extract_sps_loop(annexb, size, pos) ==
    IF ~(pos + 4 < size) THEN [ret |-> FALSE, info |-> SpsVuiInfoZero]
    ELSE extract_sps_from(annexb, size, find_startcode(annexb, size, pos))

extract_sps_vui_from_au(annexb, size) == extract_sps_loop(annexb, size, 0)

\* build_pic_timing_sei_nal_from_sps (1250-1255)
build_pic_timing_sei_nal_from_sps(info, drop_frame, frame, seconds, minutes, hours) ==
    build_pic_timing_sei_nal(drop_frame, frame, seconds, minutes, hours,
                             info.cpb_dpb_delays_present_flag /\ info.time_offset_length > 0)

(***************************************************************************)
(* Timecode of an access unit (prepend_h264_sei_timecode 407-460).         *)
(* A buffer is [data, tcmeta, pts]: tcmeta is NULL or a GstVideoTimeCode   *)
(* [hours, minutes, seconds, frames, drop_frame_flag], pts is a guint64.   *)
(***************************************************************************)
GST_SECOND == BigOf(1000000000)

GST_CLOCK_TIME_NONE == BigSub(Big2To64, BigOf(1))

\* (fps_n == 30000 && fps_d == 1001) || (fps_n == 60000 && fps_d == 1001)
IsDropFrameRate(fpsn, fpsd) ==
    (fpsn = BigOf(30000) /\ fpsd = BigOf(1001)) \/ (fpsn = BigOf(60000) /\ fpsd = BigOf(1001))

NoTimecode(scfg) ==
    [have_tc |-> FALSE, hours |-> 0, minutes |-> 0, seconds |-> 0, frame |-> <<>>,
     drop_frame |-> FALSE, scfg |-> scfg]

\* 411-430: the attached GstVideoTimeCodeMeta
timecode_from_meta(scfg, tc) ==
    LET fpsn == scfg.fps_n
        fpsd == IF scfg.fps_d # <<>> THEN scfg.fps_d ELSE BigOf(1)
    IN  [have_tc |-> TRUE, hours |-> tc.hours, minutes |-> tc.minutes,
         seconds |-> tc.seconds, frame |-> BigOf(tc.frames),
         drop_frame |-> IF drop_frame_macro THEN tc.drop_frame_flag
                        ELSE IsDropFrameRate(fpsn, fpsd),
         scfg |-> scfg]

\* 451-452: est is GST_SECOND / delta as guint
est_fps_in_range(scfg, delta, est) ==
    IF scfg.last_pts_ns # <<>> /\ delta # <<>>
       /\ BigLe(BigOf(12), est) /\ BigLe(est, BigOf(120))
    THEN BigToInt(est)
    ELSE scfg.est_fps

\* 449-452: delta is pts - last_pts_ns
est_fps_of_delta(scfg, delta) ==
    est_fps_in_range(scfg, delta, BigLowBits(BigDiv(GST_SECOND, delta), 32))

\* 447-454: the framerate estimate from two successive PTS
est_fps_update(scfg, pts) == est_fps_of_delta(scfg, BigSubWrap64(pts, scfg.last_pts_ns))

\* the PTS timecode with the two products of 442-443 kept in 32 bits
timecode_from_split_32bit_products(scfg, pts, split, est) ==
    Then(split, Then(est,
    [have_tc |-> TRUE,
     hours |-> BigToInt(BigMod(BigDiv(split.q, BigOf(3600)), BigOf(24))),
     minutes |-> BigToInt(BigMod(BigDiv(split.q, BigOf(60)), BigOf(60))),
     seconds |-> BigToInt(BigMod(split.q, BigOf(60))),
     frame |-> IF scfg.fps_n # <<>> /\ scfg.fps_d # <<>>
               THEN IF BigLowBits(BigMul(GST_SECOND, scfg.fps_d), 32) = <<>> THEN <<>>
                    ELSE BigLowBits(BigDiv(BigLowBits(BigMul(split.r, scfg.fps_n), 32),
                                      BigLowBits(BigMul(GST_SECOND, scfg.fps_d), 32)), 32)
               ELSE BigLowBits(BigDiv(BigLowBits(BigMul(split.r,
                                                        BigOf(IF est # 0 THEN est ELSE 25)),
                                                 32),
                                      GST_SECOND), 32),
     drop_frame |-> scfg.fps_n # <<>> /\ scfg.fps_d # <<>>
                    /\ IsDropFrameRate(scfg.fps_n, scfg.fps_d),
     scfg |-> IF scfg.fps_n # <<>> /\ scfg.fps_d # <<>> THEN scfg
              ELSE [scfg EXCEPT !.est_fps = est, !.last_pts_ns = pts]]))

\* 435-459: split is [q, r] of pts by GST_SECOND, est the framerate estimate
timecode_from_split(scfg, pts, split, est) ==
    Then(split, Then(est,
    [have_tc |-> TRUE,
     hours |-> BigToInt(BigMod(BigDiv(split.q, BigOf(3600)), BigOf(24))),
     minutes |-> BigToInt(BigMod(BigDiv(split.q, BigOf(60)), BigOf(60))),
     seconds |-> BigToInt(BigMod(split.q, BigOf(60))),
     frame |-> IF scfg.fps_n # <<>> /\ scfg.fps_d # <<>>
               THEN BigLowBits(BigDiv(BigLowBits(BigMul(split.r, scfg.fps_n), 64),
                                      BigLowBits(BigMul(GST_SECOND, scfg.fps_d), 64)), 32)
               ELSE BigLowBits(BigDiv(BigLowBits(BigMul(split.r,
                                                        BigOf(IF est # 0 THEN est ELSE 25)),
                                                 64),
                                      GST_SECOND), 32),
     drop_frame |-> scfg.fps_n # <<>> /\ scfg.fps_d # <<>>
                    /\ IsDropFrameRate(scfg.fps_n, scfg.fps_d),
     scfg |-> IF scfg.fps_n # <<>> /\ scfg.fps_d # <<>> THEN scfg
              ELSE [scfg EXCEPT !.est_fps = est, !.last_pts_ns = pts]]))

\* 433-460: the timecode derived from the PTS
timecode_from_pts(scfg, pts) ==
    timecode_from_split(scfg, pts, BigDivMod(pts, GST_SECOND), est_fps_update(scfg, pts))

\* the timecode source with the PTS taken whether or not it is valid or preferred
timecode_of_any_pts(scfg, inbuf) ==
    IF inbuf.tcmeta # NULL THEN timecode_from_meta(scfg, inbuf.tcmeta)
    ELSE timecode_from_pts(scfg, inbuf.pts)

\* the timecode source with a valid PTS taken before the metadata
timecode_of_pts_first(scfg, inbuf) ==
    IF scfg.prefer_pts /\ inbuf.pts # GST_CLOCK_TIME_NONE
    THEN timecode_from_pts(scfg, inbuf.pts)
    ELSE IF inbuf.tcmeta # NULL THEN timecode_from_meta(scfg, inbuf.tcmeta)
    ELSE NoTimecode(scfg)

timecode_of(scfg, inbuf) ==
    IF inbuf.tcmeta # NULL THEN timecode_from_meta(scfg, inbuf.tcmeta)
    ELSE IF scfg.prefer_pts /\ inbuf.pts # GST_CLOCK_TIME_NONE
         THEN timecode_from_pts(scfg, inbuf.pts)
    ELSE NoTimecode(scfg)

(***************************************************************************)
(* The Picture Timing SEI of an access unit (466-508): [sei, info, valid,  *)
(* stderr], info and valid being g_last_sps_info / g_last_sps_valid after. *)
(***************************************************************************)
\* the SpsVuiInfo handed to the SEI builder with its HRD fields as parsed
ClearHrd_left_as_parsed(info) == info

ClearHrd(info) ==
    [info EXCEPT !.cpb_dpb_delays_present_flag = FALSE, !.cpb_removal_delay_length = 0,
                 !.dpb_output_delay_length = 0, !.time_offset_length = 0]

\* the SpsVuiInfo the SEI is built from, ex being what extract_sps_vui_from_au
\* returned: of this AU's SPS (472-479), else the cached one (497-503), else the
\* minimal one (506)
sei_info(ex) ==
    IF ex.ret THEN [ClearHrd(ex.info) EXCEPT !.pic_struct_present_flag = TRUE]
    ELSE IF g_last_sps_valid THEN ClearHrd(g_last_sps_info)
    ELSE SpsVuiInfoZero

sei_from_sps(scfg, tc, ex) ==
    [sei    |-> build_pic_timing_sei_nal_from_sps(sei_info(ex), tc.drop_frame, tc.frame,
                    tc.seconds, tc.minutes, tc.hours),
     info   |-> IF ex.ret \/ g_last_sps_valid THEN sei_info(ex) ELSE g_last_sps_info,
     valid  |-> ex.ret \/ g_last_sps_valid,
     stderr |-> IF ex.ret /\ scfg.verbose THEN <<"SPS VUI">> ELSE <<>>]

sei_for_au(scfg, data, tc) ==
    sei_from_sps(scfg, tc, extract_sps_vui_from_au(data, Len(data)))

(***************************************************************************)
(* The scan of the access unit (519-560)                                   *)
(***************************************************************************)
\* 63-69: nal_start is where the NAL header of the first NAL is
log_sps_vui_at(annexb, size, nal_start) ==
    IF nal_start + 1 >= size THEN <<>>
    ELSE IF parse_sps_vui_info_from_rbsp(
                ebsp_to_rbsp(Slice(annexb, nal_start + 1, size))).ret
         THEN <<"Patched SPS VUI">>
         ELSE <<>>

\* log_sps_vui_from_annexb (59-83): one line when the NAL parses
log_sps_vui_from_annexb(annexb) ==
    IF Len(annexb) < 5 \/ find_startcode(annexb, Len(annexb), 0) < 0 THEN <<>>
    ELSE log_sps_vui_at(annexb, Len(annexb),
             find_startcode(annexb, Len(annexb), 0)
             + startcode_len_at(annexb, Len(annexb), find_startcode(annexb, Len(annexb), 0)))

\* the patched SPS cache built with the framerate of the SeiConfig as it is,
\* without the substitutes of 544-545
patched_sps_after_raw_fps(scfg, data, nal_start, next, patched) ==
    IF patched = NULL /\ next > nal_start + 1
    THEN patch_sps_pic_struct_and_timing(
             Slice(data, nal_start + 1, next), At(data, nal_start),
             scfg.fps_n, scfg.fps_d, "slack")
    ELSE patched

\* the patched SPS cache built only from an SPS that is the first NAL of the
\* access unit
patched_sps_after_leading_only(scfg, data, nal_start, next, patched) ==
    IF patched = NULL /\ next > nal_start + 1 /\ nal_start <= 4
    THEN patch_sps_pic_struct_and_timing(
             Slice(data, nal_start + 1, next), At(data, nal_start),
             IF scfg.fps_n # <<>> THEN scfg.fps_n
             ELSE (IF scfg.est_fps # 0 THEN BigOf(scfg.est_fps) ELSE BigOf(25)),
             IF scfg.fps_d # <<>> THEN scfg.fps_d ELSE BigOf(1),
             "slack")
    ELSE patched

\* 541-550: the patched SPS cache after an SPS NAL data[nal_start .. next)
patched_sps_after(scfg, data, nal_start, next, patched) ==
    IF patched = NULL /\ next > nal_start + 1
    THEN patch_sps_pic_struct_and_timing(
             Slice(data, nal_start + 1, next), At(data, nal_start),
             IF scfg.fps_n # <<>> THEN scfg.fps_n
             ELSE (IF scfg.est_fps # 0 THEN BigOf(scfg.est_fps) ELSE BigOf(25)),
             IF scfg.fps_d # <<>> THEN scfg.fps_d ELSE BigOf(1),
             "slack")
    ELSE patched

\* an SPS NAL with the patched SPS kept only in a verbose run
scan_sps_verbose_only(scfg, st, cache) ==
    [st EXCEPT !.sps_present = TRUE,
               !.patched = IF scfg.verbose THEN cache ELSE @,
               !.stderr = IF st.patched = NULL /\ cache # NULL /\ scfg.verbose
                          THEN @ \o log_sps_vui_from_annexb(cache)
                          ELSE @]

\* 538-550: an SPS NAL, cache being the patched SPS cache after it
scan_sps(scfg, st, cache) ==
    [st EXCEPT !.sps_present = TRUE, !.patched = cache,
               !.stderr = IF st.patched = NULL /\ cache # NULL /\ scfg.verbose
                          THEN @ \o log_sps_vui_from_annexb(cache)
                          ELSE @]

\* 531-552: the NAL data[nal_start .. next)
scan_nal(scfg, data, nal_start, next, st) ==
    IF At(data, nal_start) % 32 = 9 /\ ~st.insert_after_aud
    THEN [st EXCEPT !.insert_after_aud = TRUE, !.aud_end = next]
    ELSE IF At(data, nal_start) % 32 = 7
    THEN scan_sps(scfg, st, patched_sps_after(scfg, data, nal_start, next, st.patched))
    ELSE IF At(data, nal_start) % 32 = 5 THEN [st EXCEPT !.idr_present = TRUE]
    ELSE st

\* 553-559: on to the NAL after the start code at next, if there is one
RECURSIVE scan_nals(_, _, _, _, _)
scan_next(scfg, data, size, next, st) ==
    IF next = size THEN st
    ELSE scan_nals(scfg, data, size, next + startcode_len_at(data, size, next), st)

scan_nals(scfg, data, size, nal_start, st) ==
    IF ~(nal_start < size) THEN st
    ELSE scan_next(scfg, data, size,
                   end_or(find_startcode(data, size, nal_start + 1), size),
                   scan_nal(scfg, data, nal_start,
                            end_or(find_startcode(data, size, nal_start + 1), size), st))

(***************************************************************************)
(* The copy loops (599-623 and 644-668, the same statements): the NALs     *)
(* from offset p on, without SPS and SEI NALs; acc is [out, sps_replaced]. *)
(***************************************************************************)
RECURSIVE copy_nals(_, _, _, _, _)
\* the copy loop with the NAL appended from its header on, without its start code
copy_nal_from_header(data, size, sc, nal_start2, next2, patched, acc) ==
    copy_nals(data, size, next2, patched,
              IF At(data, nal_start2) % 32 = 7
              THEN (IF ~acc.sps_replaced /\ patched # NULL /\ Len(patched) > 0
                    THEN [out |-> acc.out \o patched, sps_replaced |-> TRUE]
                    ELSE acc)
              ELSE IF At(data, nal_start2) % 32 = 6 THEN acc
              ELSE [acc EXCEPT !.out = @ \o Slice(data, nal_start2, next2)])

\* the copy loop with the SEI NALs of the input copied like any other NAL
copy_nal_keeping_sei(data, size, sc, nal_start2, next2, patched, acc) ==
    copy_nals(data, size, next2, patched,
              IF At(data, nal_start2) % 32 = 7
              THEN (IF ~acc.sps_replaced /\ patched # NULL /\ Len(patched) > 0
                    THEN [out |-> acc.out \o patched, sps_replaced |-> TRUE]
                    ELSE acc)
              ELSE [acc EXCEPT !.out = @ \o Slice(data, sc, next2)])

\* 607-622: the NAL data[nal_start2 .. next2) behind the start code at sc
copy_nal(data, size, sc, nal_start2, next2, patched, acc) ==
    copy_nals(data, size, next2, patched,
              IF At(data, nal_start2) % 32 = 7
              THEN (IF ~acc.sps_replaced /\ patched # NULL /\ Len(patched) > 0
                    THEN [out |-> acc.out \o patched, sps_replaced |-> TRUE]
                    ELSE acc)
              ELSE IF At(data, nal_start2) % 32 = 6 THEN acc
              ELSE [acc EXCEPT !.out = @ \o Slice(data, sc, next2)])

\* 601-606: sc is what find_startcode returned
copy_from(data, size, sc, patched, acc) ==
    IF sc < 0 \/ sc + startcode_len_at(data, size, sc) >= size THEN acc
    ELSE copy_nal(data, size, sc, sc + startcode_len_at(data, size, sc),
                  end_or(find_startcode(data, size,
                                        sc + startcode_len_at(data, size, sc) + 1), size),
                  patched, acc)

copy_nals(data, size, p, patched, acc) ==
    IF ~(p < size) THEN acc
    ELSE copy_from(data, size, find_startcode(data, size, p), patched, acc)

\* 570: the patched SPS goes in on an AU that has an SPS or an IDR
inject_patched_sps(patched, sps_present, idr_present) ==
    patched # NULL /\ Len(patched) > 0 /\ (sps_present \/ idr_present)

\* the decision taken on an SPS of this AU alone, an IDR not counting
want_before_sei_sps_only(patched, sps_present, idr_present) ==
    patched # NULL /\ Len(patched) > 0 /\ sps_present

\* 579 and 627
want_before_sei(patched, sps_present, idr_present) ==
    /\ patched # NULL /\ Len(patched) > 0
    /\ sps_present \/ inject_patched_sps(patched, sps_present, idr_present)

(***************************************************************************)
(* prepend_h264_sei_timecode (406-680).  The result holds the returned     *)
(* buffer (same = it is inbuf itself), the SeiConfig and the three statics *)
(* as the call leaves them, and the locals the properties speak about.     *)
(***************************************************************************)
\* 669-679: the new buffer, body being what the copy loop leaves
prepend_rewritten(inbuf, tc, s, st, body) ==
    Then(body,
    [same |-> FALSE, buffer |-> [inbuf EXCEPT !.data = body.out], scfg |-> tc.scfg,
     last_sps_info |-> s.info, last_sps_valid |-> s.valid,
     patched_sps_ebsp |-> st.patched,
     tc |-> [tc EXCEPT !.scfg = <<>>], sei |-> s.sei,
     sps_before_sei |-> want_before_sei(st.patched, st.sps_present, st.idr_present),
     stderr |-> st.stderr
         \o (IF tc.scfg.verbose
                /\ want_before_sei(st.patched, st.sps_present, st.idr_present)
             THEN <<"Injected patched SPS "
                    \o (IF st.insert_after_aud THEN "(after AUD)" ELSE "(prepend)")>>
             ELSE <<>>)
         \o (IF tc.scfg.verbose
             THEN <<"Emitted pic_timing SEI "
                    \o (IF st.insert_after_aud THEN "(after AUD)" ELSE "(prepend)")>>
             ELSE <<>>)])

\* 570-668: st is what the scan leaves.  After the AUD (575-623) or in front
\* (625-668): the bytes up to the end of the AUD, the patched SPS when it is
\* wanted before the SEI, the SEI, then the copy loop.
prepend_scanned(inbuf, tc, s, st) ==
    Then(st,
    prepend_rewritten(inbuf, tc, s, st,
        copy_nals(inbuf.data, Len(inbuf.data),
                  IF st.insert_after_aud THEN st.aud_end ELSE 0, st.patched,
                  [out |-> (IF st.insert_after_aud THEN Slice(inbuf.data, 0, st.aud_end)
                            ELSE <<>>)
                           \o (IF want_before_sei(st.patched, st.sps_present, st.idr_present)
                               THEN st.patched ELSE <<>>)
                           \o s.sei,
                   sps_replaced |->
                       want_before_sei(st.patched, st.sps_present, st.idr_present)])))

\* the scan's state before the first NAL
scan_start(stderr) ==
    [insert_after_aud |-> FALSE, aud_end |-> -1, sps_present |-> FALSE,
     idr_present |-> FALSE, patched |-> g_patched_sps_ebsp, stderr |-> stderr]

\* 519-567: s is the SEI built, pos0 the first start code
prepend_scan(inbuf, tc, s, pos0) ==
    Then(s,
    IF pos0 < 0
    THEN [same |-> TRUE, buffer |-> inbuf, scfg |-> tc.scfg,
          last_sps_info |-> s.info, last_sps_valid |-> s.valid,
          patched_sps_ebsp |-> g_patched_sps_ebsp,
          tc |-> [tc EXCEPT !.scfg = <<>>], sei |-> s.sei, sps_before_sei |-> FALSE,
          stderr |-> s.stderr]
    ELSE prepend_scanned(inbuf, tc, s,
             IF startcode_len_at(inbuf.data, Len(inbuf.data), pos0) > 0
             THEN scan_nals(tc.scfg, inbuf.data, Len(inbuf.data),
                            pos0 + startcode_len_at(inbuf.data, Len(inbuf.data), pos0),
                            scan_start(s.stderr))
             ELSE scan_start(s.stderr)))

\* 461-518: tc is the timecode found
prepend_with_timecode(scfg, inbuf, tc) ==
    Then(tc,
    IF ~tc.have_tc
    THEN [same |-> TRUE, buffer |-> inbuf, scfg |-> scfg,
          last_sps_info |-> g_last_sps_info, last_sps_valid |-> g_last_sps_valid,
          patched_sps_ebsp |-> g_patched_sps_ebsp,
          tc |-> [tc EXCEPT !.scfg = <<>>], sei |-> NULL, sps_before_sei |-> FALSE,
          stderr |-> <<>>]
    ELSE prepend_scan(inbuf, tc, sei_for_au(tc.scfg, inbuf.data, tc),
                      find_startcode(inbuf.data, Len(inbuf.data), 0)))

\* prepend_h264_sei_timecode (406-680)
prepend_h264_sei_timecode(scfg, inbuf) ==
    prepend_with_timecode(scfg, inbuf, timecode_of(scfg, inbuf))

(***************************************************************************)
(* What the encoder pushes on the probed pad.  An access unit is at most   *)
(* MaxNals NAL units out of NalUnits, each with its start code, optionally *)
(* after a byte that belongs to no NAL, or one of LongAccessUnits.         *)
(***************************************************************************)
MaxNals == 2

\* at most this many of them after a byte that belongs to no NAL
MaxNalsAfterJunk == 1

AUD_NAL == <<0, 0, 0, 1, 9, 240>>

\* Baseline profile, no VUI
SPS_A == <<0, 0, 0, 1, 103, 66, 0, 30, 237, 2, 131, 242>>

\* Main profile, VUI with timing info 1001/60000 and NAL HRD, pic_struct_present_flag 0
SPS_B == <<0, 0, 0, 1, 103, 77, 0, 30, 237, 1, 64, 123, 66, 0, 0, 3, 7, 210, 0, 1, 212, 193,
           196, 133, 133, 87, 189, 240, 16>>

\* cut after seq_parameter_set_id: the patcher's reads run off the end
SPS_T == <<0, 0, 0, 1, 103, 66, 0, 30, 237>>

\* a user-data SEI as an encoder emits it
SEI_IN == <<0, 0, 0, 1, 6, 5, 1, 170, 128>>

IDR_NAL == <<0, 0, 0, 1, 101, 136, 132>>

\* non-IDR slice behind a 3-byte start code
P_NAL == <<0, 0, 1, 65, 154, 2>>

NalUnits == {AUD_NAL, SPS_A, SPS_B, SPS_T, SEI_IN, IDR_NAL, P_NAL}

Junk == <<171>>

RECURSIVE NalSeqs(_)
NalSeqs(n) ==
    IF n = 0 THEN {<<>>}
    ELSE LET shorter == NalSeqs(n - 1)
         IN  shorter \cup {au \o nal : au \in shorter, nal \in NalUnits}

\* access units as encoders lay them out, longer than MaxNals
LongAccessUnits ==
    {AUD_NAL \o SPS_A \o IDR_NAL,
     AUD_NAL \o SPS_B \o SEI_IN \o IDR_NAL,
     SPS_A \o SPS_B \o IDR_NAL,
     AUD_NAL \o SEI_IN \o P_NAL,
     SPS_T \o SPS_A \o IDR_NAL \o P_NAL}

AccessUnits ==
    (NalSeqs(MaxNals) \cup {Junk \o au : au \in NalSeqs(MaxNalsAfterJunk)}
        \cup LongAccessUnits) \ {<<>>}

TC_01_02_03_04(drop) ==
    [hours |-> 1, minutes |-> 2, seconds |-> 3, frames |-> 4, drop_frame_flag |-> drop]

TimecodeMetas == {NULL, TC_01_02_03_04(FALSE), TC_01_02_03_04(TRUE)}

\* 01:02:03 and 160 ms, and one 25 fps frame later (frame 5, where the
\* timecode metadata says frame 4)
Pts1 == BigAdd(BigMul(BigOf(3723), GST_SECOND), BigOf(160000000))

Pts2 == BigAdd(Pts1, BigOf(40000000))

PtsValues == {GST_CLOCK_TIME_NONE, Pts1, Pts2}

Buffers ==
    {b \in [data : AccessUnits, tcmeta : TimecodeMetas, pts : PtsValues] :
        b.tcmeta # NULL => b.pts = Pts2}

\* framerates of the encoder's sink caps (1353-1365); 0/1 when the caps name none
Framerates == {<<BigOf(0), BigOf(1)>>, <<BigOf(25), BigOf(1)>>, <<BigOf(30000), BigOf(1001)>>}

\* main inside g_main_loop_run (1396), the pipeline PLAYING (1387); id is
\* sei_probe_id, 0 when main installed no probe
MainRunning(id) ==
    /\ main_pc = "run"
    /\ quit_by = "none"
    /\ pipeline_state = "PLAYING"
    /\ sei_probe_id = id
    /\ sei_cfg_freed = FALSE

(***************************************************************************)
(* The streaming thread: the encoder pushes a buffer, the pad probe runs   *)
(* on it, the buffer left in the probe info goes downstream.               *)
(***************************************************************************)
Init ==
    /\ pc = "idle"
    /\ buf = NULL
    /\ newbuf = NULL
    /\ obs = NULL
    /\ sei_cfg \in {[inject_sei |-> TRUE, prefer_pts |-> TRUE, fps_n |-> f[1], fps_d |-> f[2],
                     verbose |-> v, last_pts_ns |-> <<>>, est_fps |-> 0] :
                       f \in Framerates, v \in BOOLEAN}
    /\ g_last_sps_info = SpsVuiInfoZero
    /\ g_last_sps_valid = FALSE
    /\ g_patched_sps_ebsp = NULL
    /\ drop_frame_macro \in BOOLEAN
    /\ arg = NULL
    /\ res = NULL
    /\ MainRunning(1)

\* the encoder pushes one of the buffers on its src pad
PushFrom(buffers) ==
    /\ pc = "idle"
    /\ pipeline_state = "PLAYING"
    /\ buf' \in buffers
    /\ pc' = "pushed"
    /\ UNCHANGED <<newbuf, obs, sei_cfg, g_last_sps_info, g_last_sps_valid,
                   g_patched_sps_ebsp, drop_frame_macro, arg, res>>
    /\ UNCHANGED main_vars

Push == PushFrom(Buffers)

\* the pad handing every buffer to the rewriter, whether a probe is installed
\* and inject_sei set (684) or not
Probe_always_injecting ==
    /\ pc = "pushed"
    /\ obs' = prepend_h264_sei_timecode(sei_cfg, buf)
    /\ newbuf' = obs'.buffer
    /\ sei_cfg' = obs'.scfg
    /\ g_last_sps_info' = obs'.last_sps_info
    /\ g_last_sps_valid' = obs'.last_sps_valid
    /\ g_patched_sps_ebsp' = obs'.patched_sps_ebsp
    /\ pc' = "done"
    /\ UNCHANGED <<buf, drop_frame_macro, arg, res>>
    /\ UNCHANGED main_vars

\* a buffer crosses the encoder's src pad: h264_sei_inject_probe (682-694) when
\* main installed it (1379)
Probe ==
    /\ pc = "pushed"
    /\ IF sei_probe_id = 0 \/ ~sei_cfg.inject_sei
       THEN /\ newbuf' = buf
            /\ obs' = [same |-> TRUE]
            /\ UNCHANGED <<sei_cfg, g_last_sps_info, g_last_sps_valid, g_patched_sps_ebsp>>
       ELSE /\ obs' = prepend_h264_sei_timecode(sei_cfg, buf)
            /\ newbuf' = obs'.buffer
            /\ sei_cfg' = obs'.scfg
            /\ g_last_sps_info' = obs'.last_sps_info
            /\ g_last_sps_valid' = obs'.last_sps_valid
            /\ g_patched_sps_ebsp' = obs'.patched_sps_ebsp
    /\ pc' = "done"
    /\ UNCHANGED <<buf, drop_frame_macro, arg, res>>
    /\ UNCHANGED main_vars

\* the buffer goes downstream; the streaming thread waits for the next one
Deliver ==
    /\ pc = "done"
    /\ pc' = "idle"
    /\ buf' = NULL
    /\ newbuf' = NULL
    /\ obs' = NULL
    /\ UNCHANGED <<sei_cfg, g_last_sps_info, g_last_sps_valid, g_patched_sps_ebsp,
                   drop_frame_macro, arg, res>>
    /\ UNCHANGED main_vars

Next == Push \/ Probe \/ Deliver

Spec == Init /\ [][Next]_vars

(***************************************************************************)
(* The SEI builder on its own: one call of build_pic_timing_sei_nal on a   *)
(* timecode sample.  Every hour of the day; the minutes, seconds and       *)
(* frame counts are the ends of their ranges and the values around which   *)
(* the payload bytes become 00 00 0x.                                      *)
(***************************************************************************)
SeiHours == 0 .. 23

SeiMinutes == 0 .. 59

SeiSeconds == {0, 3, 59}

SeiFrames == {0, 1, 4, 127, 128, 255}

SeiArgs ==
    [drop_frame : BOOLEAN, frame : SeiFrames, seconds : SeiSeconds, minutes : SeiMinutes,
     hours : SeiHours, include_time_offset : BOOLEAN]

\* the streaming thread at rest, for the specifications of single functions
AtRest ==
    /\ buf = NULL
    /\ newbuf = NULL
    /\ obs = NULL
    /\ sei_cfg = [inject_sei |-> TRUE, prefer_pts |-> TRUE, fps_n |-> BigOf(25),
                  fps_d |-> BigOf(1), verbose |-> FALSE, last_pts_ns |-> <<>>, est_fps |-> 0]
    /\ g_last_sps_info = SpsVuiInfoZero
    /\ g_last_sps_valid = FALSE
    /\ g_patched_sps_ebsp = NULL
    /\ drop_frame_macro = FALSE
    /\ MainRunning(1)

InitSei ==
    /\ pc = "sei"
    /\ AtRest
    /\ arg \in SeiArgs
    /\ res = NULL

BuildSei ==
    /\ pc = "sei"
    /\ res' = build_pic_timing_sei_nal(arg.drop_frame, BigOf(arg.frame), arg.seconds,
                                       arg.minutes, arg.hours, arg.include_time_offset)
    /\ pc' = "sei_built"
    /\ UNCHANGED <<buf, newbuf, obs, sei_cfg, g_last_sps_info, g_last_sps_valid,
                   g_patched_sps_ebsp, drop_frame_macro, arg>>
    /\ UNCHANGED main_vars

NextSei == BuildSei

SpecSei == InitSei /\ [][NextSei]_vars

(***************************************************************************)
(* The VUI-rebuild patch on its own: one call of                           *)
(* patch_sps_pic_struct_and_timing on an SPS payload (the bytes after the  *)
(* NAL header) and a framerate of nonzero 32-bit values.                   *)
(***************************************************************************)
\* High profile, no scaling matrix, VUI with timing info
SPS_H == <<0, 0, 0, 1, 103, 100, 0, 30, 172, 218, 5, 7, 232, 64, 0, 0, 3, 0, 64, 0, 0, 12, 161>>

\* High profile, seq_scaling_matrix_present_flag 1 with list 0 present, its first
\* delta_scale -8 (nextScale 0: the list ends there), VUI with timing info
SPS_HS == <<0, 0, 0, 1, 103, 100, 0, 30, 173, 132, 64, 109, 0, 133, 252, 176, 147, 208, 7, 2,
            5, 229, 168, 96, 194>>

SpsPayloads == {Slice(nal, 5, Len(nal)) : nal \in {SPS_A, SPS_B, SPS_T, SPS_H, SPS_HS}}

UINT32_MAX == BigSub(BigMul(BigOf(65536), BigOf(65536)), BigOf(1))

FpsNums == {BigOf(1), BigOf(25), BigOf(30000), BigOf(60000), BigOf(2147483647), UINT32_MAX}

FpsDens == {BigOf(1), BigOf(1001), UINT32_MAX}

SpsArgs == [ebsp : SpsPayloads, fps_n : FpsNums, fps_d : FpsDens]

InitSps ==
    /\ pc = "sps"
    /\ AtRest
    /\ arg \in SpsArgs
    /\ res = NULL

PatchSps ==
    /\ pc = "sps"
    /\ res' = patch_sps_pic_struct_and_timing(arg.ebsp, 103, arg.fps_n, arg.fps_d, "slack")
    /\ pc' = "sps_patched"
    /\ UNCHANGED <<buf, newbuf, obs, sei_cfg, g_last_sps_info, g_last_sps_valid,
                   g_patched_sps_ebsp, drop_frame_macro, arg>>
    /\ UNCHANGED main_vars

NextSps == PatchSps

SpecSps == InitSps /\ [][NextSps]_vars

(***************************************************************************)
(* How a downstream Annex B parser reads a byte stream: a NAL unit begins  *)
(* at every 00 00 01, a zero byte before it belonging to the start code,   *)
(* and its type is the low five bits of the byte after the start code.     *)
(***************************************************************************)
NalHeaderAt(data, i) ==
    i > 3 /\ i <= Len(data) /\ data[i - 3] = 0 /\ data[i - 2] = 0 /\ data[i - 1] = 1

NalHeaders(data) ==
    SelectSeq(AsSeq([i \in 1 .. Len(data) |-> i]), LAMBDA i : NalHeaderAt(data, i))

NalFirstByte(data, i) == IF i > 4 /\ data[i - 4] = 0 THEN i - 4 ELSE i - 3

SplitNals(data) ==
    LET h == NalHeaders(data)
    IN  AsSeq([k \in 1 .. Len(h) |->
                  SubSeq(data, NalFirstByte(data, h[k]),
                         IF k < Len(h) THEN NalFirstByte(data, h[k + 1]) - 1 ELSE Len(data))])

NalType(nal) == nal[IF nal[3] = 1 THEN 4 ELSE 5] % 32

NalTypesOf(data) ==
    LET h == NalHeaders(data)
    IN  AsSeq([k \in 1 .. Len(h) |-> data[h[k]] % 32])

HasNalType(data, t) ==
    LET types == NalTypesOf(data)
    IN  \E k \in 1 .. Len(types) : types[k] = t

NalsOfType(nals, t) == {k \in 1 .. Len(nals) : NalType(nals[k]) = t}

StartsWithStartCode(data) ==
    \/ Len(data) >= 3 /\ SubSeq(data, 1, 3) = <<0, 0, 1>>
    \/ Len(data) >= 4 /\ SubSeq(data, 1, 4) = <<0, 0, 0, 1>>

\* the Picture Timing message a decoder reads in an SEI NAL (H.264 D.1.3 with
\* pic_struct_present_flag 1 and no HRD): the NAL without its emulation
\* prevention bytes is payload type, payload size, payload, trailing byte
DecodePicTiming(nal) ==
    LET body == ebsp_to_rbsp(Slice(nal, 5, Len(nal)))
        size == body[2]
        payload == SubSeq(body, 3, 2 + size)
    IN  [start_code |-> Slice(nal, 0, 4), header |-> At(nal, 4),
         payload_type |-> body[1], payload_size |-> size,
         payload_bytes |-> Len(body) - 3, trailing |-> body[Len(body)],
         pic_struct |-> BitWindow(payload, 0, 4),
         clock_timestamp_flag |-> BitAt(payload, 4),
         full_timestamp_flag |-> BitAt(payload, 13),
         discontinuity_flag |-> BitAt(payload, 14),
         cnt_dropped_flag |-> BitAt(payload, 15),
         n_frames |-> BitWindow(payload, 16, 8),
         seconds_value |-> BitWindow(payload, 24, 6),
         minutes_value |-> BitWindow(payload, 30, 6),
         hours_value |-> BitWindow(payload, 36, 5)]

\* the probe has rewritten the pushed access unit
Rewritten == pc = "done" /\ ~obs.same

(***************************************************************************)
(* Properties of the rewriter, over the streaming thread (Spec).           *)
(***************************************************************************)

\* C1: every rewritten access unit holds exactly one NAL of type 6, and it is
\* the Picture Timing SEI the rewriter built; no SEI NAL of the input
\* survives, wherever it sits in the input (before an AUD included).
C1_ExactlyOneSeiNal ==
    Rewritten =>
        LET nals == SplitNals(newbuf.data)
        IN  /\ Cardinality(NalsOfType(nals, 6)) = 1
            /\ \A k \in NalsOfType(nals, 6) : nals[k] = obs.sei

\* C2, as stated: every rewritten access unit whose input holds an SPS or an
\* IDR NAL carries the patched SPS immediately before the injected SEI, after
\* any earlier access units.
C2_PatchedSpsBeforeSei ==
    (Rewritten /\ (HasNalType(buf.data, 7) \/ HasNalType(buf.data, 5))) =>
        LET nals == SplitNals(newbuf.data)
        IN  \E k \in 1 .. Len(nals) - 1 :
                /\ NalType(nals[k]) = 7
                /\ nals[k] = g_patched_sps_ebsp
                /\ nals[k + 1] = obs.sei

\* C2, amended: a rewritten access unit whose input holds an SPS or an IDR NAL
\* carries the cached patched SPS immediately before the injected SEI whenever
\* a patched SPS exists once the unit has been scanned (built from an SPS of
\* this unit or of an earlier one); when none exists (an IDR unit before any
\* SPS was seen, or an SPS the patcher rejects) the NAL before the injected
\* SEI is no SPS.
C2_PatchedSpsBeforeSeiWhenCached ==
    (Rewritten /\ (HasNalType(buf.data, 7) \/ HasNalType(buf.data, 5))) =>
        LET nals == SplitNals(newbuf.data)
        IN  IF g_patched_sps_ebsp # NULL
            THEN \E k \in 1 .. Len(nals) - 1 :
                    /\ NalType(nals[k]) = 7
                    /\ nals[k] = g_patched_sps_ebsp
                    /\ nals[k + 1] = obs.sei
            ELSE \A k \in 1 .. Len(nals) - 1 :
                    nals[k + 1] = obs.sei => NalType(nals[k]) # 7

\* an IDR access unit without SPS, led by an AUD, rewritten while the cache
\* holds the patched SPS of an earlier unit
C2_IdrAfterAudWithCachedSps ==
    /\ Rewritten
    /\ HasNalType(buf.data, 5)
    /\ ~HasNalType(buf.data, 7)
    /\ NalTypesOf(buf.data)[1] = 9
    /\ g_patched_sps_ebsp # NULL

\* C3: every rewritten access unit holds at most one NAL of type 7, whatever
\* the layout of the input (several SPS, an SPS before an AUD, SPS with IDR).
C3_AtMostOneSps ==
    Rewritten => Cardinality(NalsOfType(SplitNals(newbuf.data), 7)) <= 1

\* the injected NALs (the SEI, or the cached patched SPS and then the SEI)
\* stand at place k of the output
InjectedAt(nals, k) ==
    \/ Len(nals) >= k /\ nals[k] = obs.sei
    \/ /\ Len(nals) >= k + 1
       /\ g_patched_sps_ebsp # NULL
       /\ nals[k] = g_patched_sps_ebsp
       /\ nals[k + 1] = obs.sei

\* C4: when the first NAL of the input is an AUD, the injected NALs come
\* directly after that AUD; in every other case (no AUD, or an AUD that is not
\* the first NAL) they are the first NALs of the output.
C4_InjectionPoint ==
    Rewritten =>
        LET nals == SplitNals(newbuf.data)
            first == SplitNals(buf.data)[1]
        IN  IF NalType(first) = 9
            THEN nals[1] = first /\ InjectedAt(nals, 2)
            ELSE InjectedAt(nals, 1)

\* C5: a buffer that has no start code at offset 0 leaves the probe with the
\* bytes it came with, also when a start code occurs later in it and a
\* timecode is available.
C5_NoLeadingStartCodeUntouched ==
    (pc = "done" /\ ~StartsWithStartCode(buf.data)) => newbuf.data = buf.data

\* one step of the streaming thread, as C6 constrains it
C6_Step ==
    /\ (pc = "pushed" /\ pc' = "done" /\ buf.tcmeta = NULL /\ buf.pts = GST_CLOCK_TIME_NONE)
          => /\ obs'.same
             /\ newbuf' = buf
             /\ UNCHANGED <<sei_cfg, g_last_sps_info, g_last_sps_valid, g_patched_sps_ebsp>>
    /\ (pc = "pushed" /\ buf.tcmeta = NULL)
          => LET unset == [sei_cfg EXCEPT !.prefer_pts = FALSE]
                 r == prepend_h264_sei_timecode(unset, buf)
             IN  /\ r.same
                 /\ r.buffer = buf
                 /\ r.scfg = unset
                 /\ r.last_sps_info = g_last_sps_info
                 /\ r.last_sps_valid = g_last_sps_valid
                 /\ r.patched_sps_ebsp = g_patched_sps_ebsp

\* C6: on a buffer with no timecode metadata and no usable PTS (the PTS is
\* GST_CLOCK_TIME_NONE, or prefer_pts is unset) the rewriter returns the input
\* buffer itself and changes none of last_sps_info, the patched SPS cache,
\* last_pts and est_fps.  main sets prefer_pts, so the call with prefer_pts
\* unset is made on the pushed buffer beside the probe's own.
C6_NoTimecodeNoChange == [][C6_Step]_vars

\* a buffer with an SPS but neither timecode nor PTS has gone through the
\* probe while the cache held a patched SPS and the PTS tracker an estimate
C6_PassedThroughWithStateSet ==
    /\ pc = "done"
    /\ buf.tcmeta = NULL
    /\ buf.pts = GST_CLOCK_TIME_NONE
    /\ HasNalType(buf.data, 7)
    /\ obs.same
    /\ g_patched_sps_ebsp # NULL
    /\ sei_cfg.last_pts_ns # <<>>
    /\ sei_cfg.est_fps # 0

\* C9: cnt_dropped_flag of the injected SEI is 1 exactly when the upstream
\* timecode carries the drop-frame flag or the framerate is 30000/1001 or
\* 60000/1001, with either timecode source.
C9_DropFrameDeclared ==
    Rewritten =>
        LET upstream == buf.tcmeta # NULL /\ buf.tcmeta.drop_frame_flag
            ntsc == /\ sei_cfg.fps_d = BigOf(1001)
                    /\ sei_cfg.fps_n \in {BigOf(30000), BigOf(60000)}
        IN  DecodePicTiming(obs.sei).cnt_dropped_flag = 1 <=> (upstream \/ ntsc)

\* one step of the streaming thread, as C10 constrains it
C10_Step ==
    g_patched_sps_ebsp # NULL =>
        /\ g_patched_sps_ebsp' = g_patched_sps_ebsp
        /\ (pc = "pushed" /\ pc' = "done" /\ ~obs'.same /\ HasNalType(buf.data, 7)) =>
              LET nals == SplitNals(newbuf'.data)
              IN  /\ NalsOfType(nals, 7) # {}
                  /\ \A k \in NalsOfType(nals, 7) : nals[k] = g_patched_sps_ebsp

\* C10: once the cache holds a patched SPS its bytes never change, and every
\* NAL of type 7 of a later input is dropped and replaced by the cached
\* patched SPS: the SPS NALs of the output are the cached bytes.
C10_BuiltOnceAndSpsReplaced == [][C10_Step]_vars

(***************************************************************************)
(* Properties of the SEI builder (SpecSei) and of the SPS patcher          *)
(* (SpecSps).                                                              *)
(***************************************************************************)

\* C7: for hours 0..23, minutes and seconds 0..59 and frames 0..255 the SEI
\* NAL is 00 00 00 01, 0x06, payload type 1, a payload size equal to the
\* number of payload bytes without emulation prevention, a payload decoding
\* to pic_struct 0, clock_timestamp_flag 1, full_timestamp_flag 1,
\* discontinuity_flag 0, cnt_dropped_flag the drop flag and n_frames, seconds,
\* minutes, hours the timecode's, and then 0x80.
C7_SeiDecodesToTimecode ==
    pc = "sei_built" =>
        LET m == DecodePicTiming(res)
        IN  /\ m.start_code = <<0, 0, 0, 1>>
            /\ m.header = 6
            /\ m.payload_type = 1
            /\ m.payload_size = m.payload_bytes
            /\ m.trailing = 128
            /\ m.pic_struct = 0
            /\ m.clock_timestamp_flag = 1
            /\ m.full_timestamp_flag = 1
            /\ m.discontinuity_flag = 0
            /\ m.cnt_dropped_flag = (IF arg.drop_frame THEN 1 ELSE 0)
            /\ m.n_frames = arg.frame
            /\ m.seconds_value = arg.seconds
            /\ m.minutes_value = arg.minutes
            /\ m.hours_value = arg.hours

\* the SEI of 00:00:00:00 has been built: its payload holds runs of zero
\* bytes, so the NAL is longer than header, type, size, six payload bytes and
\* trailing byte
C7_MidnightSeiBuilt ==
    /\ pc = "sei_built"
    /\ arg.hours = 0 /\ arg.minutes = 0 /\ arg.seconds = 0 /\ arg.frame = 0
    /\ ~arg.include_time_offset
    /\ Len(res) > 5 + 2 + 6 + 1

\* C8: for every SPS the VUI-rebuild patch accepts and every framerate of
\* nonzero 32-bit values, the SPS/VUI parser reads in the patched SPS
\* pic_struct_present_flag 1, timing_info_present_flag 1, time_scale
\* 2 * fps_num (as the 32-bit field holds it) and num_units_in_tick fps_den.
C8_PatchedSpsParsesBack ==
    (pc = "sps_patched" /\ res # NULL) =>
        LET p == parse_sps_vui_info_from_rbsp(ebsp_to_rbsp(Slice(res, 5, Len(res))))
        IN  /\ p.ret
            /\ p.info.pic_struct_present_flag
            /\ p.info.timing_info_present_flag
            /\ p.info.time_scale = BigLowBits(BigMul(arg.fps_n, BigOf(2)), 32)
            /\ p.info.num_units_in_tick = arg.fps_d

(***************************************************************************)
(* Further properties of the rewriter, over the streaming thread (Spec).   *)
(***************************************************************************)
\* the NALs of an access unit that are neither SEI nor SPS, in order
KeptNals(data) == SelectSeq(SplitNals(data), LAMBDA nal : NalType(nal) \notin {6, 7})

\* C11: the NALs of the input whose type is neither 6 nor 7 are in the
\* rewritten output exactly once each, byte for byte with their start codes
\* and in their input order; every other NAL of the output is the SEI built,
\* the patched SPS, or a NAL of the input: nothing else is added.
C11_OtherNalsKept ==
    Rewritten =>
        /\ KeptNals(newbuf.data) = KeptNals(buf.data)
        /\ \A k \in 1 .. Len(SplitNals(newbuf.data)) :
              \/ SplitNals(newbuf.data)[k] \in {obs.sei, g_patched_sps_ebsp}
              \/ \E j \in 1 .. Len(SplitNals(buf.data)) :
                     SplitNals(buf.data)[j] = SplitNals(newbuf.data)[k]

\* an access unit with an AUD, an SPS, an SEI of the encoder and an IDR slice
\* has been rewritten: two NALs are kept, two are dropped
C11_AudSpsSeiIdrRewritten ==
    /\ Rewritten
    /\ buf.data = AUD_NAL \o SPS_B \o SEI_IN \o IDR_NAL
    /\ Len(KeptNals(buf.data)) = 2
    /\ Len(SplitNals(newbuf.data)) = 4

\* the rewriter run once more, on the buffer the probe has left (the output
\* data with the timecode metadata and PTS of the input), with the SeiConfig
\* and the statics as the first run has left them
SecondPass == prepend_h264_sei_timecode(sei_cfg, newbuf)

\* C12: the rewriter run on an access unit it has produced, with the same
\* timecode sample and the state the first run left, rewrites it to the same
\* bytes: the SEI and the patched SPS of the first run are dropped and
\* injected again, once.
C12_SecondPassSameBytes ==
    Rewritten => (~SecondPass.same /\ SecondPass.buffer.data = newbuf.data)

\* an SPS with an IDR slice has been rewritten to patched SPS, SEI and slice,
\* which the second run takes apart again
C12_PatchedSpsAndSeiReinjected ==
    /\ Rewritten
    /\ buf.data = SPS_B \o IDR_NAL
    /\ g_patched_sps_ebsp # NULL
    /\ newbuf.data = g_patched_sps_ebsp \o obs.sei \o IDR_NAL
    /\ SecondPass.sps_before_sei
    /\ SecondPass.sei = obs.sei

(***************************************************************************)
(* Emulation prevention on its own: a byte sequence is emitted byte by     *)
(* byte through epb_safe_append into an empty array, as the loop of        *)
(* build_annexb_from_rbsp_and_header does (379-381), and the result is     *)
(* given to ebsp_to_rbsp.  The bytes are 00, the values up to 03 that      *)
(* call for an emulation prevention byte after 00 00, and one above.       *)
(***************************************************************************)
rbsp_to_ebsp(x) == epb_append_all(<<>>, x, 1, Len(x))

MaxRbspLen == 6

RbspBytes == {0, 1, 2, 3, 4}

RECURSIVE ByteSeqs(_)
ByteSeqs(n) ==
    IF n = 0 THEN {<<>>}
    ELSE ByteSeqs(n - 1) \cup {Append(x, b) : x \in ByteSeqs(n - 1), b \in RbspBytes}

InitEpb ==
    /\ pc = "epb"
    /\ AtRest
    /\ arg \in ByteSeqs(MaxRbspLen)
    /\ res = NULL

RoundTrip ==
    /\ pc = "epb"
    /\ res' = [ebsp |-> rbsp_to_ebsp(arg), rbsp |-> ebsp_to_rbsp(rbsp_to_ebsp(arg))]
    /\ pc' = "epb_done"
    /\ UNCHANGED <<buf, newbuf, obs, sei_cfg, g_last_sps_info, g_last_sps_valid,
                   g_patched_sps_ebsp, drop_frame_macro, arg>>
    /\ UNCHANGED main_vars

NextEpb == RoundTrip

SpecEpb == InitEpb /\ [][NextEpb]_vars

\* C13: ebsp_to_rbsp of the bytes emitted one by one through epb_safe_append
\* is the byte sequence emitted, for every byte sequence, the ones that
\* hold 00 00 03 themselves included.
C13_EpbRoundTrip == pc = "epb_done" => res.rbsp = arg

\* a sequence holding 00 00 03 and 00 00 00 has made the round trip: two
\* emulation prevention bytes were inserted
C13_EscapedTwice ==
    /\ pc = "epb_done"
    /\ arg = <<0, 0, 3, 0, 0, 0>>
    /\ res.ebsp = <<0, 0, 3, 3, 0, 0, 3, 0>>

(***************************************************************************)
(* The three builders of NAL units, each on its own: the SEI builder       *)
(* (BuildSei), the VUI-rebuild patch (PatchSps) and the flag patch, which  *)
(* patch_sps_pic_struct_and_timing falls back to when fps_n or fps_d is 0. *)
(* The flag patch re-emits the RBSP of its input: the inputs include SPS   *)
(* bodies in which 00 00 00 and 00 00 02 stand unescaped.                  *)
(***************************************************************************)
\* SPS_H with the emulation prevention byte left out, and with 02 in its place
SPS_H_RAW0 == <<0, 0, 0, 1, 103, 100, 0, 30, 172, 218, 5, 7, 232, 64, 0, 0, 0, 64, 0, 0, 12, 161>>

SPS_H_RAW2 == <<0, 0, 0, 1, 103, 100, 0, 30, 172, 218, 5, 7, 232, 64, 0, 0, 2, 64, 0, 0, 12, 161>>

SpsFlagArgs ==
    [ebsp : SpsPayloads \cup {Slice(nal, 5, Len(nal)) : nal \in {SPS_H_RAW0, SPS_H_RAW2}},
     fps_n : {BigOf(0), BigOf(25)}, fps_d : {BigOf(0)}]
    \cup [ebsp : {Slice(SPS_B, 5, Len(SPS_B))}, fps_n : {BigOf(0)}, fps_d : {BigOf(1)}]

\* line 999 writes outside the array when the walk ends at the end of the
\* RBSP: either outcome of that write
PatchSpsFlag ==
    /\ pc = "sps_flag"
    /\ \E oob \in {"slack", "crash"} :
          res' = patch_sps_pic_struct_and_timing(arg.ebsp, 103, arg.fps_n, arg.fps_d, oob)
    /\ pc' = "sps_flag_patched"
    /\ UNCHANGED <<buf, newbuf, obs, sei_cfg, g_last_sps_info, g_last_sps_valid,
                   g_patched_sps_ebsp, drop_frame_macro, arg>>
    /\ UNCHANGED main_vars

InitNal ==
    /\ AtRest
    /\ res = NULL
    /\ \/ pc = "sei" /\ arg \in SeiArgs
       \/ pc = "sps" /\ arg \in SpsArgs
       \/ pc = "sps_flag" /\ arg \in SpsFlagArgs

NextNal == BuildSei \/ PatchSps \/ PatchSpsFlag

SpecNal == InitNal /\ [][NextNal]_vars

\* a builder has returned a NAL
NalBuilt ==
    /\ pc \in {"sei_built", "sps_patched", "sps_flag_patched"}
    /\ res # NULL
    /\ res # <<"crash">>

\* 00 00 followed by 00, 01 or 02 at the bytes i, i+1, i+2
EmulatesStartCode(nal, i) == nal[i] = 0 /\ nal[i + 1] = 0 /\ nal[i + 2] <= 2

\* C14: in every NAL a builder returns (the Picture Timing SEI, the patched
\* SPS of the VUI-rebuild patch and of the flag patch) the bytes after the
\* 4-byte start code hold no 00 00 followed by 00, 01 or 02, and every 03
\* after 00 00 is an emulation prevention byte: the bytes are what the
\* byte-by-byte emission of the NAL's RBSP yields.
C14_NoStartCodeEmulation ==
    NalBuilt =>
        /\ SubSeq(res, 1, 4) = <<0, 0, 0, 1>>
        /\ \A i \in 5 .. Len(res) - 2 : ~EmulatesStartCode(res, i)
        /\ build_annexb_from_rbsp_and_header(ebsp_to_rbsp(Slice(res, 5, Len(res))), res[5])
               = res

\* the VUI-rebuild patch has written num_units_in_tick 1, 31 zero bits in a
\* row: the patched SPS holds emulation prevention bytes
C14_TimingPatchEscaped ==
    /\ pc = "sps_patched"
    /\ arg.fps_d = BigOf(1)
    /\ res # NULL
    /\ \E i \in 6 .. Len(res) - 2 : res[i] = 0 /\ res[i + 1] = 0 /\ res[i + 2] = 3
    /\ Len(ebsp_to_rbsp(Slice(res, 5, Len(res)))) < Len(res) - 5

\* the NALs of an access unit without its SEI NALs, in order
NalsButSei(data) == SelectSeq(SplitNals(data), LAMBDA nal : NalType(nal) # 6)

\* C15: an access unit that holds neither an SPS nor an IDR NAL is rewritten
\* to the injected SEI followed by the NALs of the input (its own SEI NALs
\* apart), the SEI standing after the AUD when the input begins with one; the
\* output holds no SPS, also when the patched SPS cache is populated.
C15_SeiOnlyWithoutSpsAndIdr ==
    (Rewritten /\ ~HasNalType(buf.data, 7) /\ ~HasNalType(buf.data, 5)) =>
        /\ ~HasNalType(newbuf.data, 7)
        /\ SplitNals(newbuf.data) =
              IF NalType(SplitNals(buf.data)[1]) = 9
              THEN <<SplitNals(buf.data)[1], obs.sei>> \o Tail(NalsButSei(buf.data))
              ELSE <<obs.sei>> \o NalsButSei(buf.data)

\* the bytes of a NAL after its start code and its header byte
NalPayload(nal) == Slice(nal, IF nal[3] = 1 THEN 4 ELSE 5, Len(nal))

\* the walk of parse_sps_vui_info_from_rbsp over the SPS NAL ends with ok
\* cleared: before vui_parameters_present_flag is read, or in the VUI
SpsParseFails(nal) ==
    \/ ~br_read_bits(ebsp_to_rbsp(NalPayload(nal)),
                     sps_walk_to_vui_flag(ebsp_to_rbsp(NalPayload(nal)), TRUE), 1).br.ok
    \/ ~parse_sps_vui_info_from_rbsp(ebsp_to_rbsp(NalPayload(nal))).ret

\* the walk of patch_sps_pic_struct_and_timing over the SPS NAL ends with ok
\* cleared, for the framerate the rewriter would call it with
SpsPatchFails(nal) ==
    patch_sps_pic_struct_and_timing(NalPayload(nal), 103, BigOf(25), BigOf(1), "slack") = NULL

\* the SPS NALs of an access unit
SpsNalsOf(data) == SelectSeq(SplitNals(data), LAMBDA nal : NalType(nal) = 7)

\* C16: when the walk over an SPS of the access unit fails (the bit reader
\* runs off the end or an exp-Golomb code overflows, in the VUI parser or in
\* the SPS patcher), the buffer leaves the probe with the bytes it came with.
C16_ParseFailurePassesThrough ==
    (/\ pc = "done"
     /\ \E k \in 1 .. Len(SpsNalsOf(buf.data)) :
           SpsParseFails(SpsNalsOf(buf.data)[k]) \/ SpsPatchFails(SpsNalsOf(buf.data)[k]))
        => newbuf.data = buf.data

\* one step of the streaming thread, as C17 constrains it: the probe rewrites
\* an access unit whose first SPS makes the parser's walk fail
C17_Step ==
    (/\ pc = "pushed" /\ pc' = "done" /\ ~obs'.same
     /\ SpsNalsOf(buf.data) # <<>>
     /\ SpsParseFails(SpsNalsOf(buf.data)[1]))
        => /\ g_last_sps_valid => g_last_sps_info' = g_last_sps_info
           /\ obs'.sei = build_pic_timing_sei_nal_from_sps(
                             IF g_last_sps_valid THEN g_last_sps_info ELSE SpsVuiInfoZero,
                             obs'.tc.drop_frame, obs'.tc.frame, obs'.tc.seconds,
                             obs'.tc.minutes, obs'.tc.hours)

\* C17: when the bit reader is exhausted inside the walk of an SPS of the
\* access unit, the SEI is built from the cached last_sps_info if there is
\* one, and the cached info stays as it was; it is built from the
\* conservative default (no HRD) when no SPS was parsed before.
C17_FailedParseKeepsCachedInfo == [][C17_Step]_vars

\* one step of the streaming thread, as C18 constrains it: the probe rewrites
\* an access unit that holds an SPS while the patched SPS cache is empty
C18_Step ==
    (/\ pc = "pushed" /\ pc' = "done" /\ ~obs'.same
     /\ g_patched_sps_ebsp = NULL
     /\ SpsNalsOf(buf.data) # <<>>)
        => IF \A k \in 1 .. Len(SpsNalsOf(buf.data)) : SpsPatchFails(SpsNalsOf(buf.data)[k])
           THEN /\ g_patched_sps_ebsp' = NULL
                /\ ~obs'.sps_before_sei
                /\ \A k \in 1 .. Len(SpsNalsOf(newbuf'.data)) :
                      \E j \in 1 .. Len(SpsNalsOf(buf.data)) :
                          SpsNalsOf(newbuf'.data)[k] = SpsNalsOf(buf.data)[j]
                /\ \E k \in 1 .. Len(SplitNals(newbuf'.data)) :
                      SplitNals(newbuf'.data)[k] = obs'.sei
           ELSE /\ g_patched_sps_ebsp' # NULL
                /\ \E k \in 1 .. Len(SplitNals(newbuf'.data)) - 1 :
                      /\ SplitNals(newbuf'.data)[k] = g_patched_sps_ebsp'
                      /\ SplitNals(newbuf'.data)[k + 1] = obs'.sei

\* C18: when no patched SPS can be built from the SPS of an access unit and
\* the cache is empty, the output carries no patched SPS (any SPS in it is a
\* NAL of the input) but carries the SEI; the cache stays empty, so that the
\* next access unit with an SPS is patched anew: with a patchable SPS the
\* patched SPS is cached and injected before the SEI.
C18_PatchFailureStillInjectsSei == [][C18_Step]_vars

\* an access unit whose only SPS cannot be patched has been rewritten, not as
\* the first of the stream (the framerate estimate comes from the PTS of two
\* access units): the cache is empty, the SEI is in the output
C18_PatchFailedSeiInjected ==
    /\ Rewritten
    /\ buf.data = SPS_T \o IDR_NAL
    /\ buf.pts = Pts2
    /\ sei_cfg.est_fps = 25
    /\ g_patched_sps_ebsp = NULL
    /\ newbuf.data = obs.sei \o IDR_NAL

\* the whole seconds of a PTS
PtsSeconds(pts) == BigToInt(BigDiv(pts, GST_SECOND))

\* one step of the streaming thread, as C19 constrains it
C19_Step ==
    (pc = "pushed" /\ pc' = "done") =>
        IF buf.tcmeta # NULL
        THEN /\ sei_cfg'.last_pts_ns = sei_cfg.last_pts_ns
             /\ sei_cfg'.est_fps = sei_cfg.est_fps
             /\ \A p \in PtsValues :
                   timecode_of(sei_cfg, [buf EXCEPT !.pts = p]) = timecode_of(sei_cfg, buf)
             /\ ~obs'.same =>
                   /\ DecodePicTiming(obs'.sei).hours_value = buf.tcmeta.hours
                   /\ DecodePicTiming(obs'.sei).minutes_value = buf.tcmeta.minutes
                   /\ DecodePicTiming(obs'.sei).seconds_value = buf.tcmeta.seconds
                   /\ DecodePicTiming(obs'.sei).n_frames = buf.tcmeta.frames
        ELSE /\ ~timecode_of([sei_cfg EXCEPT !.prefer_pts = FALSE], buf).have_tc
             /\ IF sei_cfg.prefer_pts /\ buf.pts # GST_CLOCK_TIME_NONE
                THEN ~obs'.same =>
                        /\ DecodePicTiming(obs'.sei).hours_value
                              = (PtsSeconds(buf.pts) \div 3600) % 24
                        /\ DecodePicTiming(obs'.sei).minutes_value
                              = (PtsSeconds(buf.pts) \div 60) % 60
                        /\ DecodePicTiming(obs'.sei).seconds_value
                              = PtsSeconds(buf.pts) % 60
                ELSE obs'.same

\* C19: with timecode metadata on the buffer, the hours, minutes, seconds and
\* frames of the SEI are the metadata's, whatever the PTS, and last_pts and
\* est_fps stay as they were; the timecode comes from the PTS only when there
\* is no metadata, prefer_pts is set and the PTS is valid.
C19_MetadataBeforePts == [][C19_Step]_vars

\* a buffer with metadata 01:02:03:04 and the PTS of frame 5 has been rewritten
\* at unknown framerate: the SEI says frame 4, last_pts is the PTS of the
\* buffer before
C19_MetadataUsedPtsIgnored ==
    /\ Rewritten
    /\ buf.tcmeta # NULL
    /\ buf.pts = Pts2
    /\ sei_cfg.fps_n = <<>>
    /\ sei_cfg.last_pts_ns = Pts1
    /\ DecodePicTiming(obs.sei).n_frames = 4

(***************************************************************************)
(* The PTS tracker on its own: a run of buffers without timecode metadata  *)
(* at unknown framerate (fps 0/1), each PTS a step away from the one       *)
(* before.  arg is [pts, n]: the PTS of the last buffer and the number of  *)
(* buffers so far; res is the timecode of the last buffer.                 *)
(***************************************************************************)
MaxPtsBuffers == 4

\* nanoseconds from one PTS to the next: the estimates are 1000, 125, 120,
\* 25, 12, 11 and, for a repeated PTS, none
PtsDeltas == {BigOf(1000000), BigOf(8000000), BigOf(8333333), BigOf(40000000),
              BigOf(83333333), BigOf(90000000), BigOf(0)}

InitPts ==
    /\ pc = "pts"
    /\ buf = NULL
    /\ newbuf = NULL
    /\ obs = NULL
    /\ sei_cfg = [inject_sei |-> TRUE, prefer_pts |-> TRUE, fps_n |-> BigOf(0),
                  fps_d |-> BigOf(1), verbose |-> FALSE, last_pts_ns |-> <<>>, est_fps |-> 0]
    /\ g_last_sps_info = SpsVuiInfoZero
    /\ g_last_sps_valid = FALSE
    /\ g_patched_sps_ebsp = NULL
    /\ drop_frame_macro = FALSE
    /\ arg = [pts |-> BigOf(0), n |-> 0]
    /\ res = NULL
    /\ MainRunning(1)

\* 409-460 for the next buffer, which has no metadata; its PTS is a step after
\* the last one, or Pts1 again (a stream that restarts)
TrackPts ==
    /\ pc = "pts"
    /\ arg.n < MaxPtsBuffers
    /\ \E pts \in {BigAdd(arg.pts, d) : d \in PtsDeltas} \cup {Pts1} :
          /\ arg' = [pts |-> pts, n |-> arg.n + 1]
          /\ res' = timecode_of(sei_cfg, [data |-> <<>>, tcmeta |-> NULL, pts |-> pts])
    /\ sei_cfg' = res'.scfg
    /\ UNCHANGED <<pc, buf, newbuf, obs, g_last_sps_info, g_last_sps_valid,
                   g_patched_sps_ebsp, drop_frame_macro>>
    /\ UNCHANGED main_vars

NextPts == TrackPts

SpecPts == InitPts /\ [][NextPts]_vars

\* n clamped into [lo, hi]
Clamp(n, lo, hi) == IF n < lo THEN lo ELSE IF n > hi THEN hi ELSE n

\* the frame index of a PTS at fps frames per second
FrameIndexAt(pts, fps) == BigDiv(BigMul(BigMod(pts, GST_SECOND), BigOf(fps)), GST_SECOND)

\* one buffer of the PTS path, as C20 states it: with a PTS after the last
\* one, the frame index is taken at 1s / (pts - last_pts) clamped into
\* [12, 120]; on the first buffer it is taken at 25
C20_Step ==
    (pc = "pts" /\ arg'.n = arg.n + 1) =>
        /\ sei_cfg'.est_fps = 0 \/ sei_cfg'.est_fps \in 12 .. 120
        /\ arg.n = 0 => res'.frame = FrameIndexAt(arg'.pts, 25)
        /\ (sei_cfg.last_pts_ns # <<>> /\ BigLt(sei_cfg.last_pts_ns, arg'.pts)) =>
              res'.frame = FrameIndexAt(arg'.pts,
                              Clamp(BigToInt(BigDiv(GST_SECOND,
                                                    BigSub(arg'.pts, sei_cfg.last_pts_ns))),
                                    12, 120))

\* C20: at unknown framerate the frame index is taken at 1s / (pts - last_pts)
\* clamped into [12, 120] (120 for an estimate above, 12 for one below) and at
\* 25 while there is no estimate; est_fps is always unset or within [12, 120].
C20_EstimateClamped == [][C20_Step]_vars

\* the part of C20 that speaks of est_fps alone
C20_EstFpsUnsetOrInRange == sei_cfg.est_fps = 0 \/ sei_cfg.est_fps \in 12 .. 120

(***************************************************************************)
(* The streaming thread with SEI injection switched off (--no-sei, 1353):  *)
(* the same buffers reach the encoder's src pad, inject_sei is not set.    *)
(***************************************************************************)
InitOff ==
    /\ pc = "idle"
    /\ buf = NULL
    /\ newbuf = NULL
    /\ obs = NULL
    /\ sei_cfg \in {[inject_sei |-> FALSE, prefer_pts |-> TRUE, fps_n |-> f[1], fps_d |-> f[2],
                     verbose |-> v, last_pts_ns |-> <<>>, est_fps |-> 0] :
                       f \in Framerates, v \in BOOLEAN}
    /\ g_last_sps_info = SpsVuiInfoZero
    /\ g_last_sps_valid = FALSE
    /\ g_patched_sps_ebsp = NULL
    /\ drop_frame_macro \in BOOLEAN
    /\ arg = NULL
    /\ res = NULL
    /\ MainRunning(0)

SpecOff == InitOff /\ [][Next]_vars

\* one buffer through the pad with inject_sei off
C21_Step ==
    (pc = "pushed" /\ pc' = "done" /\ ~sei_cfg.inject_sei) =>
        /\ newbuf' = buf
        /\ obs'.same
        /\ UNCHANGED <<sei_cfg, g_last_sps_info, g_last_sps_valid, g_patched_sps_ebsp>>

\* C21: with inject_sei off every buffer goes downstream as it came, and
\* last_sps_info, the patched SPS cache, last_pts and est_fps are never
\* touched, whatever buffers came before.
C21_InjectOffPassesThrough ==
    /\ [][C21_Step]_vars
    /\ [](~sei_cfg.inject_sei =>
            /\ g_last_sps_info = SpsVuiInfoZero
            /\ ~g_last_sps_valid
            /\ g_patched_sps_ebsp = NULL
            /\ sei_cfg.last_pts_ns = <<>>
            /\ sei_cfg.est_fps = 0)

\* an SPS + IDR access unit with a valid PTS has gone through untouched at
\* unknown framerate, and nothing has been cached
C21_SpsIdrLeftAlone ==
    /\ pc = "done"
    /\ ~sei_cfg.inject_sei
    /\ sei_cfg.fps_n = <<>>
    /\ buf.data = SPS_B \o IDR_NAL
    /\ buf.pts = Pts1
    /\ newbuf = buf
    /\ g_patched_sps_ebsp = NULL
    /\ sei_cfg.last_pts_ns = <<>>

\* sei_cfg with the verbose option the other way round
OtherVerbose(scfg) == [scfg EXCEPT !.verbose = ~scfg.verbose]

\* what the rewriter returns for the buffer in hand when only verbose differs
TwinRun == prepend_h264_sei_timecode(OtherVerbose(sei_cfg), buf)

\* the buffer a call returns and the state it leaves, verbose aside
Outcome(r) ==
    <<r.same, r.buffer, r.last_sps_info, r.last_sps_valid, r.patched_sps_ebsp,
      [r.scfg EXCEPT !.verbose = FALSE]>>

\* one buffer through the rewriter, next to the same buffer through a rewriter
\* in the same state but for verbose
C22_Step ==
    (pc = "pushed" /\ pc' = "done") =>
        Outcome(TwinRun) = <<obs'.same, newbuf', g_last_sps_info', g_last_sps_valid',
                             g_patched_sps_ebsp', [sei_cfg' EXCEPT !.verbose = FALSE]>>

\* C22: two runs over the same buffers that differ only in verbose give the
\* same output buffers and the same last_sps_info, patched SPS cache, last_pts
\* and est_fps after every buffer.
C22_VerboseOnlyLogs == [][C22_Step]_vars

\* a verbose run has rewritten an SPS + IDR access unit and logged the SPS, the
\* patched SPS and the injection
C22_VerboseRunLogged ==
    /\ Rewritten
    /\ sei_cfg.verbose
    /\ buf.data = SPS_B \o IDR_NAL
    /\ g_patched_sps_ebsp # NULL
    /\ Len(obs.stderr) >= 3
    /\ Len(prepend_h264_sei_timecode(OtherVerbose(sei_cfg), newbuf).stderr) = 0

(***************************************************************************)
(* main from g_main_loop_run to the end (1396-1414), next to the streaming *)
(* thread.  The main loop quits on a bus error, on EOS or on the timeout;  *)
(* main then sets the pipeline to NULL, removes the probe and frees the    *)
(* SeiConfig.  gst_element_set_state(NULL) returns once the streaming      *)
(* thread has left the pad, and no buffer is pushed afterwards.            *)
(***************************************************************************)
InitMain ==
    /\ pc = "idle"
    /\ buf = NULL
    /\ newbuf = NULL
    /\ obs = NULL
    /\ sei_cfg \in {[inject_sei |-> TRUE, prefer_pts |-> TRUE, fps_n |-> f[1], fps_d |-> f[2],
                     verbose |-> FALSE, last_pts_ns |-> <<>>, est_fps |-> 0] :
                       f \in Framerates}
    /\ g_last_sps_info = SpsVuiInfoZero
    /\ g_last_sps_valid = FALSE
    /\ g_patched_sps_ebsp = NULL
    /\ drop_frame_macro = FALSE
    /\ arg = NULL
    /\ res = NULL
    /\ MainRunning(1)

\* what the streaming thread and the unit specifications own
stream_vars == <<pc, buf, newbuf, obs, sei_cfg, g_last_sps_info, g_last_sps_valid,
                 g_patched_sps_ebsp, drop_frame_macro, arg, res>>

\* g_main_loop_quit from a callback of the main loop; g_main_loop_run returns
quit_loop(by) ==
    /\ main_pc = "run"
    /\ main_pc' = "stop"
    /\ quit_by' = by
    /\ UNCHANGED <<pipeline_state, sei_probe_id, sei_cfg_freed>>
    /\ UNCHANGED stream_vars

\* bus_msg_cb, GST_MESSAGE_ERROR (212-221)
BusError == quit_loop("error")

\* bus_msg_cb, GST_MESSAGE_EOS (222-224)
BusEos == quit_loop("eos")

\* quit_loop_cb (231-237), the --timeout timer of 1393-1395
Timeout == quit_loop("timeout")

\* 1398-1399: the pipeline goes to NULL; the call waits for the streaming
\* thread to leave the pad
StopPipeline ==
    /\ main_pc = "stop"
    /\ pc = "idle"
    /\ pipeline_state' = "NULL"
    /\ main_pc' = "remove"
    /\ UNCHANGED <<quit_by, sei_probe_id, sei_cfg_freed>>
    /\ UNCHANGED stream_vars

\* the SeiConfig freed while the pipeline is still PLAYING
FreeSeiCfg_before_stop ==
    /\ main_pc = "stop"
    /\ sei_cfg_freed' = TRUE
    /\ main_pc' = "exit"
    /\ UNCHANGED <<quit_by, pipeline_state, sei_probe_id>>
    /\ UNCHANGED stream_vars

\* 1401-1411: gst_pad_remove_probe
RemoveProbe ==
    /\ main_pc = "remove"
    /\ sei_probe_id' = 0
    /\ main_pc' = "free"
    /\ UNCHANGED <<quit_by, pipeline_state, sei_cfg_freed>>
    /\ UNCHANGED stream_vars

\* 1412: g_free(sei_cfg)
FreeSeiCfg ==
    /\ main_pc = "free"
    /\ sei_cfg_freed' = TRUE
    /\ main_pc' = "exit"
    /\ UNCHANGED <<quit_by, pipeline_state, sei_probe_id>>
    /\ UNCHANGED stream_vars

NextMain ==
    \/ Push \/ Probe \/ Deliver
    \/ BusError \/ BusEos \/ Timeout
    \/ StopPipeline \/ RemoveProbe \/ FreeSeiCfg

SpecMain == InitMain /\ [][NextMain]_vars

\* the probe callback runs on the buffer in hand
ProbeRuns == pc = "pushed" /\ pc' = "done" /\ sei_probe_id # 0

\* g_free(sei_cfg) runs
Frees == ~sei_cfg_freed /\ sei_cfg_freed'

\* C23: on every exit path (bus error, EOS, timeout) the pipeline is stopped
\* and the probe removed before the SeiConfig is freed, and the probe callback
\* never runs once it is freed.
C23_DetachedBeforeFreed ==
    /\ [][ProbeRuns => ~sei_cfg_freed]_vars
    /\ [][Frees => (pipeline_state = "NULL" /\ sei_probe_id = 0 /\ pc = "idle")]_vars
    /\ [](sei_cfg_freed => (quit_by \in {"error", "eos", "timeout"}
                             /\ pipeline_state = "NULL" /\ sei_probe_id = 0))

\* main has freed the SeiConfig after a timeout, the probe having rewritten an
\* access unit with an SPS before
C23_FreedAfterTimeout ==
    /\ main_pc = "exit"
    /\ sei_cfg_freed
    /\ quit_by = "timeout"
    /\ g_patched_sps_ebsp # NULL
    /\ sei_probe_id = 0

\* C24: a rewritten access unit that holds an SPS while the patched SPS cache
\* stays empty (the patch failed) carries no SPS NAL at all, neither the
\* original nor a patched one.
C24_NoSpsWhenPatchFails ==
    (Rewritten /\ HasNalType(buf.data, 7) /\ g_patched_sps_ebsp = NULL) =>
        ~HasNalType(newbuf.data, 7)

\* the RBSP of the SPS payload handed to the patcher
ArgRbsp == ebsp_to_rbsp(arg.ebsp)

\* the RBSP of the patched SPS
ResRbsp == ebsp_to_rbsp(Slice(res, 5, Len(res)))

\* C25: for every SPS RBSP the VUI-rebuild patcher and the SPS/VUI parser stand
\* at the same bit when they reach vui_parameters_present_flag, High profile
\* SPS with scaling lists present included; the rebuilt SPS holds the bits of
\* the original up to that flag, then the flag set.
C25_SameVuiFlagPosition ==
    pc = "sps_patched" =>
        /\ sps_walk_to_vui_flag(ArgRbsp, FALSE) = sps_walk_to_vui_flag(ArgRbsp, TRUE)
        /\ res # NULL =>
              /\ \A i \in 0 .. sps_walk_to_vui_flag(ArgRbsp, TRUE).pos - 1 :
                    BitAt(ResRbsp, i) = BitAt(ArgRbsp, i)
              /\ BitAt(ResRbsp, sps_walk_to_vui_flag(ArgRbsp, TRUE).pos) = 1

(***************************************************************************)
(* The bit reader on its own (894-926): a run of br_read_bit, br_read_bits *)
(* and br_read_ue calls on one reader with one ok flag.  arg is the data,  *)
(* res is [v, br]: what the last call returned, and the reader with its ok *)
(* flag after it.                                                          *)
(***************************************************************************)
\* no data; data that ends inside a code; 32 zero bits before data that goes on
BrData == {<<>>, <<255>>, <<90, 60>>, <<0, 0, 0, 0, 255>>, <<0, 0, 0, 0, 128, 165>>}

BrWidths == {0, 1, 3, 8}

InitBr ==
    /\ pc = "br"
    /\ AtRest
    /\ arg \in BrData
    /\ res = [v |-> 0, br |-> br_init]

\* what the unit specifications leave alone
unit_rest == <<pc, buf, newbuf, obs, sei_cfg, g_last_sps_info, g_last_sps_valid,
               g_patched_sps_ebsp, drop_frame_macro, arg>>

ReadBit ==
    /\ pc = "br"
    /\ res' = br_read_bit(arg, res.br)
    /\ UNCHANGED unit_rest
    /\ UNCHANGED main_vars

ReadBits ==
    /\ pc = "br"
    /\ \E nbits \in BrWidths : res' = br_read_bits(arg, res.br, nbits)
    /\ UNCHANGED unit_rest
    /\ UNCHANGED main_vars

ReadUe ==
    /\ pc = "br"
    /\ res' = [v |-> br_read_ue(arg, res.br).v, br |-> br_read_ue(arg, res.br).br]
    /\ UNCHANGED unit_rest
    /\ UNCHANGED main_vars

NextBr == ReadBit \/ ReadBits \/ ReadUe

SpecBr == InitBr /\ [][NextBr]_vars

\* C26: once a read has cleared ok (past the end of the data, or more than 31
\* zeros in an exp-Golomb prefix), every later br_read_bit, br_read_bits and
\* br_read_ue on that reader returns 0.
C26_ZeroAfterFailure == [][(pc = "br" /\ ~res.br.ok) => res'.v = 0]_vars

\* the part of C26 that holds: br_read_bits and br_read_ue after a failure
C26_BitsAndUeZeroAfterFailure ==
    (pc = "br" /\ ~res.br.ok) =>
        /\ br_read_ue(arg, res.br).v = 0
        /\ \A nbits \in BrWidths : br_read_bits(arg, res.br, nbits).v = 0
        /\ br_exhausted(arg, res.br) => br_read_bit(arg, res.br).v = 0

(***************************************************************************)
(* The loops of the rewriter over the start codes of one buffer, one       *)
(* iteration a step: the scan (527-560), then the copy loop (598-623 after *)
(* an AUD, 644-668 else).  arg is the buffer's data; res is [loop, pos, n, *)
(* insert_after_aud, aud_end]: the loop the call is in, its nal_start or p,*)
(* and the iterations it has made.                                         *)
(***************************************************************************)
MaxLoopLen == 7

\* 00 and 01 make start codes; 9 is the header of an AUD
LoopBytes == {0, 1, 9}

RECURSIVE LoopSeqs(_)
LoopSeqs(n) ==
    IF n = 0 THEN {<<>>}
    ELSE LoopSeqs(n - 1) \cup {Append(x, b) : x \in LoopSeqs(n - 1), b \in LoopBytes}

LoopBuffers == LoopSeqs(MaxLoopLen) \cup {AUD_NAL \o SPS_B \o SEI_IN \o IDR_NAL, P_NAL \o AUD_NAL}

\* 520-527: no start code, and the call returns at 563; else the scan begins
\* behind the first one
loop_start(data, size, pos0) ==
    IF pos0 < 0 \/ startcode_len_at(data, size, pos0) = 0
    THEN [loop |-> "end", pos |-> 0, n |-> 0, insert_after_aud |-> FALSE, aud_end |-> -1]
    ELSE [loop |-> "scan", pos |-> pos0 + startcode_len_at(data, size, pos0), n |-> 0,
          insert_after_aud |-> FALSE, aud_end |-> -1]

InitLoop ==
    /\ pc = "loop"
    /\ AtRest
    /\ arg \in LoopBuffers
    /\ res = loop_start(arg, Len(arg), find_startcode(arg, Len(arg), 0))

\* 598 and 644: where the copy loop begins
copy_start(r) ==
    [r EXCEPT !.loop = "copy", !.pos = IF r.insert_after_aud THEN r.aud_end ELSE 0, !.n = 0]

\* 529-559: the iteration on the NAL at r.pos, next being where it ends
scan_iteration(data, size, r, next) ==
    IF At(data, r.pos) % 32 = 9 /\ ~r.insert_after_aud
    THEN [r EXCEPT !.insert_after_aud = TRUE, !.aud_end = next, !.n = @ + 1,
                   !.pos = next + startcode_len_at(data, size, next)]
    ELSE [r EXCEPT !.n = @ + 1, !.pos = next + startcode_len_at(data, size, next)]

\* one pass through the while of 528: the loop ends on its condition or on the
\* break of 555
ScanLoop ==
    /\ pc = "loop"
    /\ res.loop = "scan"
    /\ res' = IF ~(res.pos < Len(arg)) THEN copy_start(res)
              ELSE IF end_or(find_startcode(arg, Len(arg), res.pos + 1), Len(arg)) = Len(arg)
              THEN copy_start(scan_iteration(arg, Len(arg), res, Len(arg)))
              ELSE scan_iteration(arg, Len(arg), res,
                                  find_startcode(arg, Len(arg), res.pos + 1))
    /\ UNCHANGED unit_rest
    /\ UNCHANGED main_vars

\* 600-622: sc is what find_startcode(p) returned
copy_iteration(data, size, r, sc) ==
    IF sc < 0 \/ sc + startcode_len_at(data, size, sc) >= size
    THEN [r EXCEPT !.loop = "end"]
    ELSE [r EXCEPT !.n = @ + 1,
                   !.pos = end_or(find_startcode(data, size,
                                      sc + startcode_len_at(data, size, sc) + 1), size)]

\* one pass through the while of 599 (645)
CopyLoop ==
    /\ pc = "loop"
    /\ res.loop = "copy"
    /\ res' = IF ~(res.pos < Len(arg)) THEN [res EXCEPT !.loop = "end"]
              ELSE copy_iteration(arg, Len(arg), res, find_startcode(arg, Len(arg), res.pos))
    /\ UNCHANGED unit_rest
    /\ UNCHANGED main_vars

NextLoop == ScanLoop \/ CopyLoop

\* the streaming thread runs the call to its end
SpecLoop == InitLoop /\ [][NextLoop]_vars /\ WF_vars(NextLoop)

\* the places of the buffer where 00 00 01 stands
StartCodes(data) ==
    {i \in 0 .. Len(data) - 3 : At(data, i) = 0 /\ At(data, i + 1) = 0 /\ At(data, i + 2) = 1}

\* an iteration: the loop goes on with a new position
Iterates == pc = "loop" /\ res'.loop = res.loop /\ res' # res

\* C27: the call ends for every buffer: every iteration of the scan and of the
\* copy loop moves its position forward, a start code that find_startcode
\* returns has length 3 or 4 at startcode_len_at, and neither loop makes more
\* iterations than the buffer has start codes.
C27_LoopsAdvanceAndEnd ==
    /\ [][Iterates => res'.pos > res.pos]_vars
    /\ [](pc = "loop" =>
            /\ res.n <= Cardinality(StartCodes(arg))
            /\ \A from \in 0 .. Len(arg) :
                  find_startcode(arg, Len(arg), from) >= 0 =>
                     startcode_len_at(arg, Len(arg), find_startcode(arg, Len(arg), from))
                        \in {3, 4})
    /\ <>(pc = "loop" => res.loop = "end")

\* both loops have run over AUD, SPS, SEI, IDR: the scan made four iterations,
\* the copy loop the three behind the AUD
C27_FourNalsWalked ==
    /\ pc = "loop"
    /\ arg = AUD_NAL \o SPS_B \o SEI_IN \o IDR_NAL
    /\ res.loop = "end"
    /\ res.insert_after_aud
    /\ res.aud_end = Len(AUD_NAL)
    /\ res.n = 3

\* the RBSP of the injected SEI NAL: payloadType, payloadSize, the payload,
\* the trailing bits
SeiRbsp == ebsp_to_rbsp(Slice(obs.sei, 5, Len(obs.sei)))

\* C28: the injected SEI NAL is a function of the timecode sample alone
\* (hours, minutes, seconds, frames, drop flag): whether the SPS comes with the
\* access unit, from the cache or not at all, no time_offset is written and
\* the payload has 6 bytes, payloadSize 6.
C28_SeiFromTimecodeOnly ==
    Rewritten =>
        /\ obs.sei = build_pic_timing_sei_nal(obs.tc.drop_frame, obs.tc.frame, obs.tc.seconds,
                                              obs.tc.minutes, obs.tc.hours, FALSE)
        /\ SubSeq(obs.sei, 1, 5) = <<0, 0, 0, 1, 6>>
        /\ Len(SeiRbsp) = 9
        /\ SeiRbsp[1] = 1
        /\ SeiRbsp[2] = 6
        /\ SeiRbsp[9] = 128

\* an access unit whose SPS announces an HRD with a 24-bit time_offset has been
\* rewritten, and so has a slice after it, from the cached SPS
C28_HrdSpsInBandOrCached ==
    /\ Rewritten
    /\ g_last_sps_valid
    /\ g_last_sps_info.timing_info_present_flag
    /\ parse_sps_vui_info_from_rbsp(ebsp_to_rbsp(Slice(SPS_B, 5, Len(SPS_B))))
          .info.time_offset_length = 24
    /\ buf.data \in {SPS_B \o IDR_NAL, P_NAL}
    /\ buf.data = P_NAL => g_patched_sps_ebsp # NULL
    /\ Len(SeiRbsp) = 9

(***************************************************************************)
(* The streaming thread on a stream whose buffers come 40, 20 or 60 ms     *)
(* apart, the SPS in the first access unit or in a later one.              *)
(***************************************************************************)
\* 20 ms after Pts1: by Pts1 the estimate is 50, by Pts2 (going back) none
Pts3 == BigAdd(Pts1, BigOf(20000000))

TimedBuffers ==
    [data : {P_NAL, SPS_B \o IDR_NAL, AUD_NAL \o SPS_A \o IDR_NAL, SPS_T \o IDR_NAL},
     tcmeta : {NULL}, pts : {GST_CLOCK_TIME_NONE, Pts1, Pts2, Pts3}]
      \cup [data : {P_NAL, SPS_B \o IDR_NAL}, tcmeta : {TC_01_02_03_04(FALSE)}, pts : {Pts2}]

PushTimed == PushFrom(TimedBuffers)

NextTimed == PushTimed \/ Probe \/ Deliver

SpecTimed == Init /\ [][NextTimed]_vars

\* the probe fills the patched SPS cache on the buffer in hand
CacheFilled == pc = "pushed" /\ pc' = "done" /\ g_patched_sps_ebsp = NULL
               /\ g_patched_sps_ebsp' # NULL

\* the framerate the rewriter hands to the patcher (544-545), the estimate
\* being the one the call has just updated
SubstFpsN == IF sei_cfg'.fps_n # <<>> THEN sei_cfg'.fps_n
             ELSE IF sei_cfg'.est_fps # 0 THEN BigOf(sei_cfg'.est_fps) ELSE BigOf(25)

SubstFpsD == IF sei_cfg'.fps_d # <<>> THEN sei_cfg'.fps_d ELSE BigOf(1)

\* what the parser reads in the cache as just filled
CachedVui == parse_sps_vui_info_from_rbsp(
                 ebsp_to_rbsp(Slice(g_patched_sps_ebsp', 5, Len(g_patched_sps_ebsp')))).info

\* the cache as just filled is the VUI-rebuild patch of an SPS of the buffer
\* for the substituted framerate, never the minimal patch; and it stays
RebuiltWithSubstitutes ==
    /\ SubstFpsN # <<>> /\ SubstFpsD # <<>>
    /\ \E k \in 1 .. Len(SpsNalsOf(buf.data)) :
          /\ g_patched_sps_ebsp' =
                patch_sps_pic_struct_and_timing(NalPayload(SpsNalsOf(buf.data)[k]), 103,
                                                SubstFpsN, SubstFpsD, "slack")
          /\ g_patched_sps_ebsp' #
                patch_sps_pic_struct_flag_to_one(NalPayload(SpsNalsOf(buf.data)[k]), 103, "slack")
    /\ CachedVui.timing_info_present_flag
    /\ CachedVui.num_units_in_tick = SubstFpsD

\* C29 as stated: the patcher never gets a zero framerate, so the cache is
\* never the minimal patch, and at unknown framerate the cached SPS declares
\* time_scale 50, num_units_in_tick 1, for the rest of the stream.
C29_UnknownFpsDeclares25 ==
    /\ [][CacheFilled =>
             /\ RebuiltWithSubstitutes
             /\ sei_cfg.fps_n = <<>> =>
                   (CachedVui.time_scale = BigOf(50) /\ CachedVui.num_units_in_tick = BigOf(1))]_vars
    /\ [][g_patched_sps_ebsp # NULL => g_patched_sps_ebsp' = g_patched_sps_ebsp]_vars

\* C29, amended: the patcher never gets a zero framerate, so the cache is never
\* the minimal patch; at unknown framerate the cached SPS declares time_scale
\* 2 * est_fps with the estimate as it is when the cache is filled, 50 when
\* there is none yet (as in the first access unit), num_units_in_tick 1, for
\* the rest of the stream.
C29_UnknownFpsDeclaresEstimate ==
    /\ [][CacheFilled =>
             /\ RebuiltWithSubstitutes
             /\ sei_cfg.fps_n = <<>> =>
                   /\ CachedVui.time_scale =
                         BigOf(2 * (IF sei_cfg'.est_fps # 0 THEN sei_cfg'.est_fps ELSE 25))
                   /\ CachedVui.num_units_in_tick = BigOf(1)
                   /\ sei_cfg.last_pts_ns = <<>> => CachedVui.time_scale = BigOf(50)]_vars
    /\ [][g_patched_sps_ebsp # NULL => g_patched_sps_ebsp' = g_patched_sps_ebsp]_vars

\* at unknown framerate a slice came first, the SPS 20 ms later: the cache
\* declares 50 frames per second
C29_SpsAfterEstimate ==
    /\ Rewritten
    /\ sei_cfg.fps_n = <<>>
    /\ sei_cfg.est_fps = 50
    /\ buf.data = SPS_B \o IDR_NAL
    /\ buf.pts = Pts3
    /\ g_patched_sps_ebsp # NULL
    /\ parse_sps_vui_info_from_rbsp(
           ebsp_to_rbsp(Slice(g_patched_sps_ebsp, 5, Len(g_patched_sps_ebsp))))
          .info.time_scale = BigOf(100)

(***************************************************************************)
(* The PTS path of the timecode (432-460) over the whole width of the PTS  *)
(* and of the framerate: buffers without metadata, one after the other.    *)
(***************************************************************************)
\* 23:59:59 and 999999999 ns
LastNsOfDay == BigAdd(BigMul(BigOf(86399), GST_SECOND), BigOf(999999999))

\* the greatest valid PTS
PtsMax == BigSub(GST_CLOCK_TIME_NONE, BigOf(1))

WidePts ==
    {<<>>, BigOf(999999999), LastNsOfDay, BigAdd(LastNsOfDay, BigOf(1)), Pts1, Pts2, Pts3,
     BigMul(BigOf(32768), BigMul(UINT32_MAX, BigOf(65536))),
     BigSub(PtsMax, BigOf(83333333)), PtsMax, GST_CLOCK_TIME_NONE}

WideFramerates ==
    {<<<<>>, BigOf(1)>>, <<BigOf(1), BigOf(1)>>, <<BigOf(25), BigOf(1)>>,
     <<BigOf(30000), BigOf(1001)>>, <<BigOf(60000), BigOf(1001)>>, <<BigOf(1), BigOf(2)>>,
     <<UINT32_MAX, BigOf(1)>>, <<UINT32_MAX, BigOf(1001)>>, <<UINT32_MAX, UINT32_MAX>>,
     <<BigOf(1), UINT32_MAX>>}

WideBuffers == [data : {P_NAL}, tcmeta : {NULL}, pts : WidePts]

InitWide ==
    /\ pc = "tc"
    /\ buf \in WideBuffers
    /\ newbuf = NULL
    /\ obs = NULL
    /\ \E fr \in WideFramerates :
          sei_cfg = [inject_sei |-> TRUE, prefer_pts |-> TRUE, fps_n |-> fr[1],
                     fps_d |-> fr[2], verbose |-> FALSE, last_pts_ns |-> <<>>, est_fps |-> 0]
    /\ g_last_sps_info = SpsVuiInfoZero
    /\ g_last_sps_valid = FALSE
    /\ g_patched_sps_ebsp = NULL
    /\ drop_frame_macro = FALSE
    /\ MainRunning(1)
    /\ arg = 0
    /\ res = NoTimecode(sei_cfg)

\* 411-464 on the buffer in hand
DeriveTimecode ==
    /\ pc = "tc"
    /\ res' = timecode_of(sei_cfg, buf)
    /\ sei_cfg' = res'.scfg
    /\ pc' = "tcdone"
    /\ UNCHANGED <<buf, newbuf, obs, g_last_sps_info, g_last_sps_valid, g_patched_sps_ebsp,
                   drop_frame_macro, arg>>
    /\ UNCHANGED main_vars

\* the next buffer of the stream
NextBuffer ==
    /\ pc = "tcdone"
    /\ buf' \in WideBuffers
    /\ pc' = "tc"
    /\ UNCHANGED <<newbuf, obs, sei_cfg, g_last_sps_info, g_last_sps_valid,
                   g_patched_sps_ebsp, drop_frame_macro, arg, res>>
    /\ UNCHANGED main_vars

NextWide == DeriveTimecode \/ NextBuffer

SpecWide == InitWide /\ [][NextWide]_vars

\* pts % GST_SECOND of the buffer in hand
PtsFrac == BigMod(buf.pts, GST_SECOND)

\* the framerate the frame index is taken at: the negotiated one, else the
\* estimate as just updated, else 25
FrameFpsN == IF sei_cfg.fps_n # <<>> THEN sei_cfg.fps_n
             ELSE BigOf(IF sei_cfg.est_fps # 0 THEN sei_cfg.est_fps ELSE 25)

FrameFpsD == IF sei_cfg.fps_n # <<>> THEN sei_cfg.fps_d ELSE BigOf(1)

\* C30: a timecode derived from a valid PTS has hours 0..23, minutes and
\* seconds 0..59 and a frame index that is (pts mod 1s) * fps_n / (1s * fps_d)
\* in exact arithmetic, below fps_n / fps_d rounded up (below the estimate, or
\* 25, at unknown framerate); neither product reaches 2^64.
C30_PtsTimecodeInRange ==
    (pc = "tcdone" /\ res.have_tc) =>
        /\ res.hours \in 0 .. 23
        /\ res.minutes \in 0 .. 59
        /\ res.seconds \in 0 .. 59
        /\ BigLt(BigMul(PtsFrac, FrameFpsN), Big2To64)
        /\ BigLt(BigMul(GST_SECOND, FrameFpsD), Big2To64)
        /\ res.frame = BigDiv(BigMul(PtsFrac, FrameFpsN), BigMul(GST_SECOND, FrameFpsD))
        /\ BigLt(BigMul(res.frame, FrameFpsD), FrameFpsN)

\* the greatest PTS at the greatest framerate: 23:34:33, frame 3047500976
C30_GreatestPtsGreatestFps ==
    /\ pc = "tcdone"
    /\ res.have_tc
    /\ buf.pts = PtsMax
    /\ sei_cfg.fps_n = UINT32_MAX
    /\ sei_cfg.fps_d = BigOf(1)
    /\ res.hours = 23
    /\ res.minutes = 34
    /\ res.seconds = 33
    /\ res.frame = BigAdd(BigMul(BigOf(30475), BigOf(100000)), BigOf(976))

=============================================================================
